---------------------------- MODULE Spec2Model ----------------------------
(***************************************************************************)
(* A model of the MangaTracker backend (src/backend/main.py): the store    *)
(* of tracked sites and series, the snapshot cache, the fetch pipeline     *)
(* (refresh_site_cache and its page requests), the poller task and its     *)
(* start/stop lifecycle, the matches query, and the pure functions the     *)
(* query is built from (page URL builder, chapter aggregation, ordering    *)
(* of source hits).                                                        *)
(*                                                                         *)
(* Text is a sequence of one-character strings.  An optional value is a    *)
(* sequence of length at most one: <<>> is Python's None, <<v>> is v.      *)
(* A chapter number (a Python float parsed from digits with at most one    *)
(* decimal point) is kept as an exact decimal, see try_parse_number.       *)
(***************************************************************************)
EXTENDS Integers, Sequences, FiniteSets, TLC

VARIABLES
    websites,        \* store.websites: site id -> Website
    nextSiteId,      \* the ids handed out so far (uuid4 never repeats one)
    series,          \* store.series: series id -> Series
    nextSeriesId,    \* the series ids handed out so far
    site_cache,      \* store.site_cache: site id -> body
    site_cache_meta, \* store.site_cache_meta: site id -> capture timestamp
    runs,            \* the refresh_site_cache invocations in flight
    poller_task,     \* the global poller_task handle
    pollers,         \* the poll_sites_loop tasks created so far
    awaitFresh,      \* history: sites whose URL changed and that no later fetch has completed for
    seen,            \* history: what has happened at least once (a 409, a purge, a cancelled tick)
    resp,            \* the last response of GET /api/matches
    reauth,          \* the POST /api/sites/{site_id}/reauth request in flight, or the last one
    pin,             \* input of the pure-function specifications
    pout             \* output of the pure-function specifications

vars == <<websites, nextSiteId, series, nextSeriesId, site_cache, site_cache_meta,
          runs, poller_task, pollers, awaitFresh, seen, resp, reauth, pin, pout>>

storeVars == <<websites, nextSiteId, series, nextSeriesId, site_cache, site_cache_meta>>
taskVars == <<runs, poller_task, pollers>>
pureVars == <<pin, pout>>

----------------------------------------------------------------------------
(* Bounds of the model. *)

MaxSites == 2       \* site ids ever handed out
MaxApiRuns == 2     \* refresh tasks created by API handlers and alive at once
MaxPollers == 2     \* poller tasks ever created
MaxTime == 1        \* datetime.now takes the values 0..MaxTime
MaxPages == 3       \* pages of a pagination config
MaxStart == 2       \* start of a pagination config, from -1 on
MaxCands == 6       \* candidates of a document
MaxHits == 3        \* sites that hold one series

----------------------------------------------------------------------------
(* Optional values and small helpers. *)

None == <<>>
Some(v) == <<v>>
IsNone(o) == o = <<>>
Get(o) == o[1]

Range(s) == {s[i] : i \in 1..Len(s)}
Max2(a, b) == IF a >= b THEN a ELSE b
Min2(a, b) == IF a <= b THEN a ELSE b

\* F applied to the value of v, which is computed once
With(v, F(_)) == CHOOSE r \in {F(y) : y \in {v}} : TRUE

RECURSIVE SeqOfSet(_)
SeqOfSet(S) ==
    IF S = {} THEN <<>>
    ELSE LET m == CHOOSE x \in S : \A y \in S : x <= y
         IN <<m>> \o SeqOfSet(S \ {m})

RECURSIVE Flatten(_)
Flatten(ss) == IF ss = <<>> THEN <<>> ELSE Head(ss) \o Flatten(Tail(ss))

----------------------------------------------------------------------------
(* Characters. *)

UpperLetters == <<"A", "B", "C", "D", "E", "F", "G", "H", "I", "J", "K", "L", "M",
                  "N", "O", "P", "Q", "R", "S", "T", "U", "V", "W", "X", "Y", "Z">>
LowerLetters == <<"a", "b", "c", "d", "e", "f", "g", "h", "i", "j", "k", "l", "m",
                  "n", "o", "p", "q", "r", "s", "t", "u", "v", "w", "x", "y", "z">>
DigitChars == <<"0", "1", "2", "3", "4", "5", "6", "7", "8", "9">>

IsUpper(c) == \E i \in 1..26 : UpperLetters[i] = c
IsLower(c) == \E i \in 1..26 : LowerLetters[i] = c
IsDigit(c) == \E i \in 1..10 : DigitChars[i] = c
\* what \s matches and str.split() splits on
IsSpace(c) == c \in {" ", "\t", "\n"}

IndexIn(c, alphabet) == CHOOSE i \in 1..Len(alphabet) : alphabet[i] = c

\* str.lower() and str.casefold(), which agree on ASCII
LowerChar(c) == IF IsUpper(c) THEN LowerLetters[IndexIn(c, UpperLetters)] ELSE c

Lower(s) == [i \in 1..Len(s) |-> LowerChar(s[i])]

StartsWith(s, p) == Len(s) >= Len(p) /\ SubSeq(s, 1, Len(p)) = p

\* the code point of a character, for the order of str
CharRank(c) ==
    IF IsDigit(c) THEN 47 + IndexIn(c, DigitChars)
    ELSE IF IsUpper(c) THEN 64 + IndexIn(c, UpperLetters)
    ELSE IF IsLower(c) THEN 96 + IndexIn(c, LowerLetters)
    ELSE CASE c = "\t" -> 9 [] c = "\n" -> 10 [] c = " " -> 32 [] c = "!" -> 33
           [] c = "'" -> 39 [] c = "-" -> 45 [] c = "." -> 46 [] c = "/" -> 47
           [] c = ":" -> 58 [] c = "{" -> 123 [] c = "}" -> 125 [] OTHER -> 127

RECURSIVE StrLess(_, _)
StrLess(a, b) ==
    IF b = <<>> THEN FALSE
    ELSE IF a = <<>> THEN TRUE
    ELSE IF CharRank(Head(a)) # CharRank(Head(b)) THEN CharRank(Head(a)) < CharRank(Head(b))
    ELSE StrLess(Tail(a), Tail(b))

StrLeq(a, b) == a = b \/ StrLess(a, b)

\* str(n) for an integer n
DigitChar(d) == DigitChars[d + 1]
DigitValue(c) == IndexIn(c, DigitChars) - 1

RECURSIVE NatToStr(_)
NatToStr(n) == IF n < 10 THEN <<DigitChar(n)>> ELSE NatToStr(n \div 10) \o <<DigitChar(n % 10)>>

IntToStr(n) == IF n < 0 THEN <<"-">> \o NatToStr(-n) ELSE NatToStr(n)


----------------------------------------------------------------------------
(* URLs.  A URL is kept parsed, as urlparse sees it: host, path and the     *)
(* query as its sequence of name=value pairs (str(site.url) joins them).   *)
(* A path template is a URL whose components may hold the placeholder.     *)

Url(host, path, query) == [host |-> host, path |-> path, query |-> query]
QP(k, v) == [k |-> k, v |-> v]

\* normalize_host: lower-cased host without a leading "www."
normalize_host(url) ==
    LET host == Lower(url.host)
    IN IF StartsWith(host, <<"w", "w", "w", ".">>) THEN SubSeq(host, 5, Len(host)) ELSE host

\* parse_qs(query, keep_blank_values=True): name -> list of values, names in
\* the order of their first occurrence
RECURSIVE parse_qs(_)
parse_qs(q) ==
    IF q = <<>> THEN <<>>
    ELSE LET rest == parse_qs(SubSeq(q, 1, Len(q) - 1))
             last == q[Len(q)]
         IN IF \E i \in 1..Len(rest) : rest[i].k = last.k
            THEN [i \in 1..Len(rest) |->
                    IF rest[i].k = last.k
                    THEN [k |-> rest[i].k, vs |-> Append(rest[i].vs, last.v)]
                    ELSE rest[i]]
            ELSE Append(rest, [k |-> last.k, vs |-> <<last.v>>])

\* query[parameter] = [value] on the dict parse_qs returned
SetParam(dict, parameter, value) ==
    IF \E i \in 1..Len(dict) : dict[i].k = parameter
    THEN [i \in 1..Len(dict) |->
            IF dict[i].k = parameter THEN [k |-> parameter, vs |-> <<value>>] ELSE dict[i]]
    ELSE Append(dict, [k |-> parameter, vs |-> <<value>>])

\* urlencode(query, doseq=True): one pair per value, in the dict's order
urlencode(dict) ==
    Flatten([i \in 1..Len(dict) |->
                [j \in 1..Len(dict[i].vs) |-> QP(dict[i].k, dict[i].vs[j])]])

apply_query_pagination(base_url, parameter, page_number) ==
    LET query == SetParam(parse_qs(base_url.query), parameter, IntToStr(page_number))
    IN [base_url EXCEPT !.query = urlencode(query)]

PagePlaceholder == <<"{", "p", "a", "g", "e", "}">>

RECURSIVE Contains(_, _)
Contains(s, pat) ==
    IF Len(s) < Len(pat) THEN FALSE
    ELSE StartsWith(s, pat) \/ Contains(Tail(s), pat)

\* str.replace(pat, rep), pat not empty
RECURSIVE Replace(_, _, _)
Replace(s, pat, rep) ==
    IF Len(s) < Len(pat) THEN s
    ELSE IF StartsWith(s, pat) THEN rep \o Replace(SubSeq(s, Len(pat) + 1, Len(s)), pat, rep)
    ELSE <<Head(s)>> \o Replace(Tail(s), pat, rep)

\* "{page}" in template
TemplateHasPage(t) ==
    \/ Contains(t.host, PagePlaceholder)
    \/ Contains(t.path, PagePlaceholder)
    \/ \E i \in 1..Len(t.query) :
          Contains(t.query[i].k, PagePlaceholder) \/ Contains(t.query[i].v, PagePlaceholder)

\* template.replace("{page}", str(page_number))
TemplateReplace(t, page_number) ==
    LET r(s) == Replace(s, PagePlaceholder, IntToStr(page_number))
    IN Url(r(t.host), r(t.path), [i \in 1..Len(t.query) |-> QP(r(t.query[i].k), r(t.query[i].v))])

(* PaginationConfig.  form tells what site.pagination holds: "model" (a      *)
(* PaginationConfig), "dict" (a dict PaginationConfig accepts), "baddict"   *)
(* (a dict it rejects), "other" (neither).                                  *)
PaginationConfig(form, strategy, parameter, template, start, pages) ==
    [form |-> form, strategy |-> strategy, parameter |-> parameter,
     template |-> template, start |-> start, pages |-> pages]

\* config.start or 1
StartOrOne(start) == IF start = 0 THEN 1 ELSE start

\* the URL of one page of the loop of build_page_urls
PageUrl(base_url, config, page_number) ==
    IF config.strategy = "query" /\ ~IsNone(config.parameter) /\ Get(config.parameter) # <<>>
    THEN apply_query_pagination(base_url, Get(config.parameter), page_number)
    ELSE IF /\ config.strategy = "path"
            /\ ~IsNone(config.template)
            /\ TemplateHasPage(Get(config.template))
    THEN TemplateReplace(Get(config.template), page_number)
    ELSE base_url

build_page_urls(site) ==
    LET base_url == site.url
    IN IF IsNone(site.pagination) THEN <<base_url>>
       ELSE LET config == Get(site.pagination)
            IN IF config.form \in {"baddict", "other"} THEN <<base_url>>
               ELSE LET pages == Max2(1, IF config.pages = 0 THEN 1 ELSE config.pages)
                        start == StartOrOne(config.start)
                        urls == [offset \in 0..(pages - 1) |-> PageUrl(base_url, config, start + offset)]
                    IN [i \in 1..pages |-> urls[i - 1]]

----------------------------------------------------------------------------
(* Text normalisation. *)

\* the regex [^a-z0-9\s] of normalize_text
IsKept(c) == IsLower(c) \/ IsDigit(c) \/ IsSpace(c)

\* str.split(): the maximal runs of non-space characters
RECURSIVE SplitFrom(_, _, _)
SplitFrom(s, i, cur) ==
    IF i > Len(s) THEN (IF cur = <<>> THEN <<>> ELSE <<cur>>)
    ELSE IF IsSpace(s[i]) THEN (IF cur = <<>> THEN <<>> ELSE <<cur>>) \o SplitFrom(s, i + 1, <<>>)
    ELSE SplitFrom(s, i + 1, Append(cur, s[i]))

Split(s) == SplitFrom(s, 1, <<>>)

\* " ".join(words)
RECURSIVE JoinWords(_)
JoinWords(ws) ==
    IF ws = <<>> THEN <<>>
    ELSE IF Len(ws) = 1 THEN ws[1]
    ELSE ws[1] \o <<" ">> \o JoinWords(Tail(ws))

\* normalize_text without its last line: whitespace is kept as it stands
normalize_text_cleaned(value) ==
    LET folded == Lower(value)
    IN [i \in 1..Len(folded) |-> IF IsKept(folded[i]) THEN folded[i] ELSE " "]

normalize_text(value) ==
    LET folded == Lower(value)
        cleaned == [i \in 1..Len(folded) |-> IF IsKept(folded[i]) THEN folded[i] ELSE " "]
    IN JoinWords(Split(cleaned))

\* re.sub(r"\s+", "", normalize_text(value))
canonicalize_title(value) == Flatten(Split(normalize_text(value)))

\* str.strip()
RECURSIVE LStrip(_)
LStrip(s) == IF s # <<>> /\ IsSpace(Head(s)) THEN LStrip(Tail(s)) ELSE s
RECURSIVE RStrip(_)
RStrip(s) == IF s # <<>> /\ IsSpace(s[Len(s)]) THEN RStrip(SubSeq(s, 1, Len(s) - 1)) ELSE s
Strip(s) == RStrip(LStrip(s))

----------------------------------------------------------------------------
(* Chapter numbers: the float parsed from a label is kept exactly, as the   *)
(* integer n and the count d of decimals of n / 10^d, without trailing     *)
(* zeros, so that equal numbers are equal values.                          *)

RECURSIVE Pow10(_)
Pow10(d) == IF d = 0 THEN 1 ELSE 10 * Pow10(d - 1)

RECURSIVE NormNum(_, _)
NormNum(n, d) == IF d > 0 /\ n % 10 = 0 THEN NormNum(n \div 10, d - 1) ELSE [n |-> n, d |-> d]

NumLess(a, b) == a.n * Pow10(b.d) < b.n * Pow10(a.d)

RECURSIVE DigitsValue(_)
DigitsValue(s) == IF s = <<>> THEN 0 ELSE 10 * DigitsValue(SubSeq(s, 1, Len(s) - 1)) + DigitValue(s[Len(s)])

AllDigits(s) == \A i \in 1..Len(s) : IsDigit(s[i])

\* float(value), None on ValueError
try_parse_number(value) ==
    LET dots == {i \in 1..Len(value) : value[i] = "."}
    IN IF dots = {}
       THEN IF value # <<>> /\ AllDigits(value) THEN Some(NormNum(DigitsValue(value), 0)) ELSE None
       ELSE IF Cardinality(dots) > 1 THEN None
       ELSE LET p == CHOOSE i \in dots : TRUE
                whole == SubSeq(value, 1, p - 1)
                frac == SubSeq(value, p + 1, Len(value))
            IN IF AllDigits(whole) /\ AllDigits(frac) /\ Len(whole) + Len(frac) > 0
               THEN Some(NormNum(DigitsValue(whole \o frac), Len(frac)))
               ELSE None

----------------------------------------------------------------------------
(* Chapter detection. *)

PROGRESS_KEYWORDS ==
    { <<"c", "h", "a", "p", "t", "e", "r">>, <<"c", "h">>, <<"v", "o", "l">>,
      <<"v", "o", "l", "u", "m", "e">>, <<"e", "p", "i", "s", "o", "d", "e">>,
      <<"e", "p">>, <<"s", "e", "a", "s", "o", "n">> }

\* str.isdigit()
IsDigitToken(t) == t # <<>> /\ AllDigits(t)

contains_progress_keyword(tokens) ==
    \E i \in 1..Len(tokens) : tokens[i] \in PROGRESS_KEYWORDS \/ IsDigitToken(tokens[i])

\* the end of the longest run of characters satisfying a test, from i
RECURSIVE SkipSpaces(_, _)
SkipSpaces(s, i) == IF i <= Len(s) /\ IsSpace(s[i]) THEN SkipSpaces(s, i + 1) ELSE i
RECURSIVE SkipDigits(_, _)
SkipDigits(s, i) == IF i <= Len(s) /\ IsDigit(s[i]) THEN SkipDigits(s, i + 1) ELSE i

\* (\d+(?:\.\d+)?) matched at position i: the position after it, or 0
NumberEnd(s, i) ==
    LET e == SkipDigits(s, i)
    IN IF e = i THEN 0
       ELSE IF e + 1 <= Len(s) /\ s[e] = "." /\ IsDigit(s[e + 1]) THEN SkipDigits(s, e + 1)
       ELSE e

\* the prefixes (?:chapter|ch\.?|c) of CHAPTER_REGEX, in the order tried
ChapterPrefixes ==
    << <<"c", "h", "a", "p", "t", "e", "r">>, <<"c", "h", ".">>, <<"c", "h">>, <<"c">> >>

HasPrefixAt(s, i, p) ==
    i + Len(p) - 1 <= Len(s) /\ Lower(SubSeq(s, i, i + Len(p) - 1)) = p

\* CHAPTER_REGEX matched at position i: group 1 as <<first, last>>, or <<>>
ChapterMatchAt(s, i) ==
    With({k \in 1..Len(ChapterPrefixes) :
             /\ HasPrefixAt(s, i, ChapterPrefixes[k])
             /\ NumberEnd(s, SkipSpaces(s, i + Len(ChapterPrefixes[k]))) # 0},
         LAMBDA ok :
             IF ok = {} THEN <<>>
             ELSE With(SkipSpaces(s, i + Len(ChapterPrefixes[CHOOSE x \in ok : \A y \in ok : x <= y])),
                       LAMBDA b : <<b, NumberEnd(s, b) - 1>>))

\* CHAPTER_REGEX.search(snippet): group 1 of the leftmost match, or <<>>
ChapterSearch(s) ==
    With({i \in 1..Len(s) : ChapterMatchAt(s, i) # <<>>},
         LAMBDA at :
             IF at = {} THEN None
             ELSE With(ChapterMatchAt(s, CHOOSE x \in at : \A y \in at : x <= y),
                       LAMBDA g : Some(SubSeq(s, g[1], g[2]))))

\* re.search(r"(\d+(?:\.\d+)?)", snippet): group 1, or <<>>
NumberSearch(s) ==
    With({i \in 1..Len(s) : IsDigit(s[i])},
         LAMBDA at :
             IF at = {} THEN None
             ELSE With(CHOOSE x \in at : \A y \in at : x <= y,
                       LAMBDA i : Some(SubSeq(s, i, NumberEnd(s, i) - 1))))

\* a (label, number) pair
Detected(label, number) == [label |-> label, number |-> number]
NotDetected == Detected(None, None)

\* the detector without its explicit pattern: the first bare number of a
\* snippet that holds a progress keyword or a numeric token
detect_chapter_in_snippet_bare(snippet) ==
    IF contains_progress_keyword(Split(normalize_text(snippet)))
    THEN With(NumberSearch(snippet),
              LAMBDA digits :
                  IF ~IsNone(digits)
                  THEN Detected(digits, try_parse_number(Get(digits)))
                  ELSE NotDetected)
    ELSE NotDetected

detect_chapter_in_snippet(snippet) ==
    With(ChapterSearch(snippet),
         LAMBDA match :
             IF ~IsNone(match)
             THEN With(Strip(Get(match)), LAMBDA label : Detected(Some(label), try_parse_number(label)))
             ELSE IF contains_progress_keyword(Split(normalize_text(snippet)))
             THEN With(NumberSearch(snippet),
                       LAMBDA digits :
                           IF ~IsNone(digits)
                           THEN Detected(digits, try_parse_number(Get(digits)))
                           ELSE NotDetected)
             ELSE NotDetected)

\* a label that is not None and not empty
Truthy(label) == ~IsNone(label) /\ Get(label) # <<>>

\* the detection of one of the two texts of extract_chapter_details
DetectIn(text) == IF text # <<>> THEN detect_chapter_in_snippet(text) ELSE NotDetected

extract_chapter_details(primary, secondary) ==
    With(DetectIn(primary),
         LAMBDA first :
             IF Truthy(first.label) THEN first
             ELSE With(DetectIn(secondary),
                       LAMBDA second : IF Truthy(second.label) THEN second ELSE NotDetected))

----------------------------------------------------------------------------
(* difflib.SequenceMatcher(None, a, b).ratio(), for texts shorter than the  *)
(* 200 characters from which autojunk applies: 2 * M / T with M the total  *)
(* size of the matching blocks and T the two lengths together.  A ratio is *)
(* kept as the pair of 2 * M and T.                                        *)

RECURSIVE RunLen(_, _, _, _, _, _)
RunLen(a, b, i, j, ahi, bhi) ==
    IF i > ahi \/ j > bhi THEN 0
    ELSE IF a[i] # b[j] THEN 0
    ELSE 1 + RunLen(a, b, i + 1, j + 1, ahi, bhi)

\* find_longest_match and the recursion of get_matching_blocks on both sides
\* of the block found: the longest block, the earliest in a, then in b
RECURSIVE MatchCount(_, _, _, _, _, _)
MatchCount(a, b, alo, ahi, blo, bhi) ==
    IF alo > ahi \/ blo > bhi THEN 0
    ELSE LET len == [p \in (alo..ahi) \X (blo..bhi) |-> RunLen(a, b, p[1], p[2], ahi, bhi)]
             kmax == CHOOSE k \in {len[p] : p \in DOMAIN len} : \A q \in DOMAIN len : len[q] <= k
         IN IF kmax = 0 THEN 0
            ELSE LET is == {p[1] : p \in {q \in DOMAIN len : len[q] = kmax}}
                     i == CHOOSE x \in is : \A y \in is : x <= y
                     js == {p[2] : p \in {q \in DOMAIN len : len[q] = kmax /\ q[1] = i}}
                     j == CHOOSE x \in js : \A y \in js : x <= y
                 IN kmax + MatchCount(a, b, alo, i - 1, blo, j - 1)
                         + MatchCount(a, b, i + kmax, ahi, j + kmax, bhi)

Ratio(a, b) ==
    IF Len(a) + Len(b) = 0 THEN [m |-> 1, t |-> 1]
    ELSE [m |-> 2 * MatchCount(a, b, 1, Len(a), 1, Len(b)), t |-> Len(a) + Len(b)]

\* ratio >= num / den, and r > q
RatioAtLeast(r, num, den) == r.m * den >= num * r.t
RatioGreater(r, q) == r.m * q.t > q.m * r.t

----------------------------------------------------------------------------
(* The structural matcher. *)

\* a matcher whose token-subset rule does not look at the ratio
is_structural_match_subset(normalized_title, title_tokens, candidate_norm, candidate_tokens) ==
    IF candidate_norm = <<>> THEN FALSE
    ELSE \E ratio \in {Ratio(normalized_title, candidate_norm)}, n \in {Len(title_tokens)} :
            \/ RatioAtLeast(ratio, 9, 10)
            \/ /\ n >= 2
               /\ Range(title_tokens) \subseteq Range(candidate_tokens)
            \/ /\ n >= 2
               /\ Len(candidate_tokens) > n
               /\ SubSeq(candidate_tokens, 1, n) = title_tokens
               /\ contains_progress_keyword(SubSeq(candidate_tokens, n + 1, Len(candidate_tokens)))
            \/ /\ n = 1
               /\ \/ candidate_norm = title_tokens[1]
                  \/ /\ candidate_tokens # <<>>
                     /\ candidate_tokens[1] = title_tokens[1]
                     /\ contains_progress_keyword(Tail(candidate_tokens))

is_structural_match(normalized_title, title_tokens, candidate_norm, candidate_tokens) ==
    IF candidate_norm = <<>> THEN FALSE
    ELSE \E ratio \in {Ratio(normalized_title, candidate_norm)}, n \in {Len(title_tokens)} :
            \/ RatioAtLeast(ratio, 9, 10)
            \/ /\ n >= 2
               /\ Range(title_tokens) \subseteq Range(candidate_tokens)
               /\ RatioAtLeast(ratio, 3, 4)
            \/ /\ n >= 2
               /\ Len(candidate_tokens) > n
               /\ SubSeq(candidate_tokens, 1, n) = title_tokens
               /\ contains_progress_keyword(SubSeq(candidate_tokens, n + 1, Len(candidate_tokens)))
            \/ /\ n = 1
               /\ \/ candidate_norm = title_tokens[1]
                  \/ /\ candidate_tokens # <<>>
                     /\ candidate_tokens[1] = title_tokens[1]
                     /\ contains_progress_keyword(Tail(candidate_tokens))

----------------------------------------------------------------------------
(* Dictionaries: a function whose domain is the set of keys. *)

EmptyMap == [x \in {} |-> 0]
MapSet(f, k, v) == [x \in (DOMAIN f) \cup {k} |-> IF x = k THEN v ELSE f[x]]
MapPop(f, k) == [x \in (DOMAIN f) \ {k} |-> f[x]]

\* list(d.values()): a dict keeps insertion order, and ids are handed out in
\* increasing order, an update keeping the key's place
Values(f) == LET ks == SeqOfSet(DOMAIN f) IN [i \in 1..Len(ks) |-> f[ks[i]]]

----------------------------------------------------------------------------
(* The remote sites.  A document is the sequence of its elements; the page  *)
(* served at a URL holds one link to itself whose text names a series and   *)
(* its latest chapter, by host.                                             *)

Element(tag, text, href, parent) == [tag |-> tag, text |-> text, href |-> href, parent |-> parent]

\* the "\n<!--page-break-->\n" separator: a comment, never an element
PageBreak == Element("comment", <<>>, None, <<>>)

HostText(url) ==
    IF normalize_host(url) = <<"a">> THEN <<"a", "b", " ", "c", "d", " ", "c", "h", " ", "7">>
    ELSE IF normalize_host(url) = <<"b">> THEN <<"a", "b", " ", "c", "d", " ", "c", "h", " ", "9">>
    ELSE <<"x", "y", " ", "z">>

Web(url) == <<Element("a", HostText(url), Some(url), <<>>)>>

MAX_RESPONSE_BYTES == 1000000

----------------------------------------------------------------------------
(* InMemoryStore. *)

\* a Website as add_site builds it: no cookies, never reauthenticated
Website(id, label, url, pagination) ==
    [id |-> id, label |-> label, url |-> url, pagination |-> pagination,
     auth_cookies |-> <<>>, last_reauth_at |-> None]

\* a loop that compares the hosts as they were submitted
HostTaken_exact(sites, url, except) ==
    \E i \in (DOMAIN sites) \ except : sites[i].url.host = url.host

\* the loop of add_site and update_site that raises 409
HostTaken(sites, url, except) ==
    \E i \in (DOMAIN sites) \ except : normalize_host(sites[i].url) = normalize_host(url)

\* model_dump of the payload's pagination: a PaginationConfig becomes a dict
DumpPagination(p) == IF IsNone(p) THEN None ELSE Some([Get(p) EXCEPT !.form = "dict"])

\* the fields update_site changes on the stored site; a field of the payload
\* that is unset is None here, and pagination is <<v>> when set (to v, which
\* may be null)
UpdatedSite(site, payload) ==
    [site EXCEPT
        !.label = IF IsNone(payload.label) THEN @ ELSE Get(payload.label),
        !.url = IF IsNone(payload.url) THEN @ ELSE Get(payload.url),
        !.pagination = IF IsNone(payload.pagination) THEN @ ELSE DumpPagination(Get(payload.pagination)),
        !.auth_cookies = IF IsNone(payload.auth_cookies) THEN @ ELSE Get(payload.auth_cookies)]

\* update_site_cookies on a tracked site
update_site_cookies(sites, site_id, cookies, timestamp) ==
    MapSet(sites, site_id,
           [sites[site_id] EXCEPT !.auth_cookies = cookies, !.last_reauth_at = Some(timestamp)])

\* whether update_site purges the snapshot: "url" in update_data
PurgesSnapshot(payload) == ~IsNone(payload.url)

\* record_site_snapshot that leaves the timestamp when the body is empty
record_site_snapshot_stamped(c, site_id, body, timestamp) ==
    IF body # <<>>
    THEN [cache |-> MapSet(c.cache, site_id, body), meta |-> MapSet(c.meta, site_id, timestamp)]
    ELSE [cache |-> MapPop(c.cache, site_id), meta |-> c.meta]

\* record_site_snapshot that keeps the prior snapshot when the body is empty
record_site_snapshot_keeps(c, site_id, body, timestamp) ==
    IF body # <<>>
    THEN [cache |-> MapSet(c.cache, site_id, body), meta |-> MapSet(c.meta, site_id, timestamp)]
    ELSE c

\* record_site_snapshot, on the pair of dictionaries
record_site_snapshot(c, site_id, body, timestamp) ==
    IF body # <<>>
    THEN [cache |-> MapSet(c.cache, site_id, body), meta |-> MapSet(c.meta, site_id, timestamp)]
    ELSE [cache |-> MapPop(c.cache, site_id), meta |-> MapPop(c.meta, site_id)]

----------------------------------------------------------------------------
(* The fetch pipeline. *)

ApiRunIds == 1..MaxApiRuns
PollerIds == 1..MaxPollers
PollerRun(p) == -p
FreeApiRuns == ApiRunIds \ DOMAIN runs

NewRun(targets) ==
    [targets |-> targets,
     prog |-> [k \in 1..Len(targets) |-> [log |-> <<>>, pages |-> <<>>]],
     stale |-> {}]

\* text[:MAX_RESPONSE_BYTES] when the text is longer
Truncate(text) == IF Len(text) > MAX_RESPONSE_BYTES THEN SubSeq(text, 1, MAX_RESPONSE_BYTES) ELSE text

\* fetch_page that appends an empty text for a request that failed
fetch_page_blank(pages, page_url, outcome) ==
    IF outcome = "ok" THEN Append(pages, Truncate(Web(page_url))) ELSE Append(pages, <<>>)

\* one turn of the loop of fetch_site_body: the pages after the request of
\* page_url ended ok (a 2xx response) or failed (an httpx.HTTPError)
fetch_page(pages, page_url, outcome) ==
    IF outcome = "ok" THEN Append(pages, Truncate(Web(page_url))) ELSE pages

\* "\n<!--page-break-->\n".join(pages)
RECURSIVE JoinPages(_)
JoinPages(pages) ==
    IF pages = <<>> THEN <<>>
    ELSE IF Len(pages) = 1 THEN pages[1]
    ELSE pages[1] \o <<PageBreak>> \o JoinPages(Tail(pages))

PagesDone(run, k) == Len(run.prog[k].log) >= Len(build_page_urls(run.targets[k]))
RunDone(run) == \A k \in 1..Len(run.targets) : PagesDone(run, k)

\* the loop of refresh_site_cache over zip(targets, bodies), from target k on
RECURSIVE WriteSnapshots(_, _, _, _)
WriteSnapshots(c, run, k, timestamp) ==
    IF k > Len(run.targets) THEN c
    ELSE WriteSnapshots(
            record_site_snapshot(c, run.targets[k].id, JoinPages(run.prog[k].pages), timestamp),
            run, k + 1, timestamp)

\* the task that runs r may take a step: a poller whose cancellation was
\* requested gets CancelledError at its await instead
Cancelled(p) == p \in DOMAIN pollers /\ pollers[p].cancel
RunActive(r) == r \in DOMAIN runs /\ (r < 0 => ~Cancelled(-r))

TargetIds(run) == {run.targets[k].id : k \in 1..Len(run.targets)}

----------------------------------------------------------------------------
(* The chapter aggregator. *)

ChapterListing(label, number, link, detected_at) ==
    [label |-> label, number |-> number, link |-> link, detected_at |-> detected_at]

\* build_chapter_signature: None, f"num:{number}" or f"label:{...}"
Signature(kind, number, label) == [kind |-> kind, number |-> number, label |-> label]
build_chapter_signature_label(label, number) ==
    IF Truthy(label) THEN Some(Signature("label", None, Lower(Strip(Get(label)))))
    ELSE None

build_chapter_signature(label, number) ==
    IF ~IsNone(number) THEN Some(Signature("num", number, <<>>))
    ELSE IF Truthy(label) THEN Some(Signature("label", None, Lower(Strip(Get(label)))))
    ELSE None

\* the sort key of sort_chapter_entries, compared as Python compares tuples
ChapterKeyLess(x, y) ==
    LET fx == IF IsNone(x.number) THEN 1 ELSE 0
        fy == IF IsNone(y.number) THEN 1 ELSE 0
        lx == IF IsNone(x.label) THEN <<>> ELSE Get(x.label)
        ly == IF IsNone(y.label) THEN <<>> ELSE Get(y.label)
    IN IF fx # fy THEN fx < fy
       ELSE IF fx = 0 /\ Get(x.number) # Get(y.number) THEN NumLess(Get(y.number), Get(x.number))
       ELSE StrLess(lx, ly)

\* sorted(entries, key=...), which is stable: an entry goes before the first
\* entry whose key is greater
RECURSIVE InsertChapter(_, _)
InsertChapter(sorted, e) ==
    IF sorted = <<>> THEN <<e>>
    ELSE IF ChapterKeyLess(e, Head(sorted)) THEN <<e>> \o sorted
    ELSE <<Head(sorted)>> \o InsertChapter(Tail(sorted), e)

RECURSIVE SortChapters(_, _)
SortChapters(sorted, entries) ==
    IF entries = <<>> THEN sorted
    ELSE SortChapters(InsertChapter(sorted, Head(entries)), Tail(entries))

\* the entries in the order they were found
sort_chapter_entries_asis(entries) == entries

sort_chapter_entries(entries) == SortChapters(<<>>, entries)

\* ordered[:5]
MaxListings == 5
Truncated(ordered) == SubSeq(ordered, 1, Min2(Len(ordered), MaxListings))

----------------------------------------------------------------------------
(* Candidates. *)

CandidateEntry(text, link, context) ==
    With(normalize_text(text),
         LAMBDA norm : [text |-> text, norm |-> norm, tokens |-> Split(norm),
                        link |-> link, context |-> context])

CandidateTags == {"a", "h1", "h2", "h3", "h4", "h5", "h6", "strong", "em", "p", "li"}
MAX_CANDIDATE_ELEMENTS == 8000

\* the elements of the tag set whose normalized text is not empty, the first
\* MAX_CANDIDATE_ELEMENTS of them; urljoin of an absolute href is the href
\* the entry of one element: its text, its href and the text of its parent
\* when that differs
CandidateOf(e) ==
    CandidateEntry(e.text, e.href, IF e.parent # <<>> /\ e.parent # e.text THEN e.parent ELSE <<>>)

RECURSIVE CandidatesOf(_)
CandidatesOf(elements) ==
    IF elements = <<>> THEN <<>>
    ELSE (IF Head(elements).tag \in CandidateTags /\ normalize_text(Head(elements).text) # <<>>
          THEN <<CandidateOf(Head(elements))>>
          ELSE <<>>) \o CandidatesOf(Tail(elements))

extract_candidate_entries(soup, base_url) ==
    LET entries == CandidatesOf(soup)
    IN SubSeq(entries, 1, Min2(Len(entries), MAX_CANDIDATE_ELEMENTS))

----------------------------------------------------------------------------
(* locate_series_hit. *)

Best(ratio, link, label, number) == [ratio |-> ratio, link |-> link, label |-> label, number |-> number]

\* a best hit that a later candidate of the same ratio replaces
IsBetter_last(best, ratio) == IsNone(best) \/ ~RatioGreater(Get(best).ratio, ratio)

\* whether a matching candidate replaces the best hit so far
IsBetter(best, ratio) == IsNone(best) \/ RatioGreater(ratio, Get(best).ratio)

\* the loop of locate_series_hit over the candidates: best, chapter_entries
\* and seen_chapter_keys after the candidates from position i on
\* best, chapter_entries and seen_chapter_keys after one matching candidate,
\* from its ratio, its chapter details ch, its link and its signature key
AfterCandidate(st, ratio, ch, link, key, detected_at) ==
    With(Truthy(ch.label) /\ ~IsNone(key) /\ Get(key) \notin st.seen,
         LAMBDA add :
             [best |-> IF IsBetter(st.best, ratio)
                       THEN Some(Best(ratio, link, ch.label, ch.number))
                       ELSE st.best,
              entries |-> IF add
                          THEN Append(st.entries,
                                      ChapterListing(ch.label, ch.number, Some(link), detected_at))
                          ELSE st.entries,
              seen |-> IF add THEN st.seen \cup {Get(key)} ELSE st.seen])

\* the body of the loop of locate_series_hit for one candidate
ScanCandidate(entry, normalized_title, site_url, detected_at, st) ==
    IF ~is_structural_match(normalized_title, Split(normalized_title), entry.norm, entry.tokens)
    THEN st
    ELSE With(extract_chapter_details(entry.text, entry.context),
              LAMBDA ch :
                  AfterCandidate(st, Ratio(normalized_title, entry.norm), ch,
                                 IF IsNone(entry.link) THEN site_url ELSE Get(entry.link),
                                 build_chapter_signature(ch.label, ch.number), detected_at))

RECURSIVE ScanCandidates(_, _, _, _, _, _)
ScanCandidates(candidates, i, normalized_title, site_url, detected_at, st) ==
    IF i > Len(candidates) THEN st
    ELSE ScanCandidates(candidates, i + 1, normalized_title, site_url, detected_at,
                        ScanCandidate(candidates[i], normalized_title, site_url, detected_at, st))

\* the listings of locate_series_hit, from the best hit and the sorted entries
\* chapter_entries after the best hit was put in front, when no entry has
\* its signature
WithBest(best, own, signature, ordered) ==
    IF /\ Truthy(best.label)
       /\ ~IsNone(signature)
       /\ \A i \in 1..Len(ordered) :
             build_chapter_signature(ordered[i].label, ordered[i].number) # signature
    THEN <<own>> \o ordered
    ELSE ordered

Listings(best, ordered, detected_at) ==
    With(ChapterListing(best.label, best.number, Some(best.link), detected_at),
         LAMBDA own :
             With(WithBest(best, own, build_chapter_signature(best.label, best.number), ordered),
                  LAMBDA withBest : Truncated(IF withBest = <<>> THEN <<own>> ELSE withBest)))

Hit(link, label, number, chapters) ==
    [link |-> link, chapter_label |-> label, chapter_number |-> number, chapter_list |-> chapters]

\* a hit whose label and number are those of its first listing
HitOf_newest(st, detected_at) ==
    IF IsNone(st.best) THEN None
    ELSE With(Get(st.best),
              LAMBDA best :
                  With(Listings(best, sort_chapter_entries(st.entries), detected_at),
                       LAMBDA listings :
                           Some(Hit(best.link, listings[1].label, listings[1].number, listings))))

\* None, or <<hit>>
\* what locate_series_hit returns after its loop
HitOf(st, detected_at) ==
    IF IsNone(st.best) THEN None
    ELSE With(Get(st.best),
              LAMBDA best :
                  Some(Hit(best.link, best.label, best.number,
                           Listings(best, sort_chapter_entries(st.entries), detected_at))))

locate_series_hit(candidates, title, site_url, detected_at) ==
    With(normalize_text(title),
         LAMBDA normalized_title :
             IF normalized_title = <<>> THEN None
             ELSE HitOf(ScanCandidates(candidates, 1, normalized_title, site_url, detected_at,
                                       [best |-> None, entries |-> <<>>, seen |-> {}]),
                        detected_at))

----------------------------------------------------------------------------
(* The match engine. *)

SourceHit(site, link, latest_chapter, latest_chapter_number, recent_chapters, site_host) ==
    [site |-> site, link |-> link, latest_chapter |-> latest_chapter,
     latest_chapter_number |-> latest_chapter_number, recent_chapters |-> recent_chapters,
     site_host |-> site_host]

Match(title, sources) == [title |-> title, sources |-> sources]

\* a sort key that puts the hits without a number first
SourceKeyLess_nullfirst(x, y) ==
    IF x.latest_chapter_number # y.latest_chapter_number
    THEN IF IsNone(x.latest_chapter_number) THEN TRUE
         ELSE IF IsNone(y.latest_chapter_number) THEN FALSE
         ELSE NumLess(Get(y.latest_chapter_number), Get(x.latest_chapter_number))
    ELSE StrLess(Lower(x.site), Lower(y.site))

\* the sort key of serialize_matches: (-(number or -1.0), site.lower())
SourceKeyLess(x, y) ==
    IF x.latest_chapter_number # y.latest_chapter_number
    THEN IF IsNone(x.latest_chapter_number) THEN FALSE
         ELSE IF IsNone(y.latest_chapter_number) THEN TRUE
         ELSE NumLess(Get(y.latest_chapter_number), Get(x.latest_chapter_number))
    ELSE StrLess(Lower(x.site), Lower(y.site))

RECURSIVE InsertSource(_, _)
InsertSource(sorted, h) ==
    IF sorted = <<>> THEN <<h>>
    ELSE IF SourceKeyLess(h, Head(sorted)) THEN <<h>> \o sorted
    ELSE <<Head(sorted)>> \o InsertSource(Tail(sorted), h)

RECURSIVE SortSources(_, _)
SortSources(sorted, hits) ==
    IF hits = <<>> THEN sorted
    ELSE SortSources(InsertSource(sorted, Head(hits)), Tail(hits))

\* match_index is kept as the list of its (title, hits) items, and hits as
\* the list of its values, both in insertion order
serialize_matches(match_index) ==
    [i \in 1..Len(match_index) |->
        Match(match_index[i].title, SortSources(<<>>, match_index[i].hits))]

\* hits[source_label] = hit
PutHit(hits, hit) ==
    IF \E j \in 1..Len(hits) : hits[j].site = hit.site
    THEN [j \in 1..Len(hits) |-> IF hits[j].site = hit.site THEN hit ELSE hits[j]]
    ELSE Append(hits, hit)

\* match_index.setdefault(display_title, {})[source_label] = hit
PutMatch(match_index, display_title, hit) ==
    IF \E i \in 1..Len(match_index) : match_index[i].title = display_title
    THEN [i \in 1..Len(match_index) |->
            IF match_index[i].title = display_title
            THEN [match_index[i] EXCEPT !.hits = PutHit(@, hit)]
            ELSE match_index[i]]
    ELSE Append(match_index, [title |-> display_title, hits |-> <<hit>>])

Term(display, search, canonical) == [display |-> display, search |-> search, canonical |-> canonical]

\* the terms of one record: its title, then its aliases
RECURSIVE TermsOfNames(_, _)
TermsOfNames(display, names) ==
    IF names = <<>> THEN <<>>
    ELSE LET candidate == Strip(Head(names))
             rest == TermsOfNames(display, Tail(names))
         IN IF candidate = <<>> \/ canonicalize_title(candidate) = <<>> THEN rest
            ELSE <<Term(display, candidate, canonicalize_title(candidate))>> \o rest

build_series_terms(records) ==
    Flatten([i \in 1..Len(records) |->
                TermsOfNames(records[i].title, <<records[i].title>> \o records[i].aliases)])

\* the loop of matches_from_cache over the terms, for one site with a snapshot
RECURSIVE ScanTerms(_, _, _, _, _, _)
ScanTerms(match_index, site, candidates, detected_at, series_terms, j) ==
    IF j > Len(series_terms) THEN match_index
    ELSE ScanTerms(
            With(locate_series_hit(candidates, series_terms[j].search, site.url, detected_at),
                 LAMBDA hit :
                     IF IsNone(hit) THEN match_index
                     ELSE PutMatch(match_index, series_terms[j].display,
                                   SourceHit(IF site.label # <<>> THEN site.label
                                             ELSE normalize_host(site.url),
                                             Get(hit).link, Get(hit).chapter_label,
                                             Get(hit).chapter_number, Get(hit).chapter_list,
                                             Lower(site.url.host)))),
            site, candidates, detected_at, series_terms, j + 1)

\* the loop of matches_from_cache over the sites
RECURSIVE ScanSites(_, _, _, _, _, _)
ScanSites(st, sites, series_terms, cache, meta, i) ==
    IF i > Len(sites) THEN st
    ELSE IF sites[i].id \notin DOMAIN cache \/ cache[sites[i].id] = <<>>
    THEN ScanSites([st EXCEPT !.missing_cache = TRUE], sites, series_terms, cache, meta, i + 1)
    ELSE ScanSites(
            [st EXCEPT !.match_index =
                ScanTerms(@, sites[i], extract_candidate_entries(cache[sites[i].id], sites[i].url),
                          IF sites[i].id \in DOMAIN meta THEN Some(meta[sites[i].id]) ELSE None,
                          series_terms, 1)],
            sites, series_terms, cache, meta, i + 1)

\* (matches, missing_cache)
matches_from_cache(sites, series_terms, cache, meta) ==
    IF series_terms = <<>> THEN [matches |-> <<>>, missing_cache |-> FALSE]
    ELSE With(ScanSites([match_index |-> <<>>, missing_cache |-> FALSE],
                        sites, series_terms, cache, meta, 1),
              LAMBDA st : [matches |-> serialize_matches(st.match_index),
                           missing_cache |-> st.missing_cache])

----------------------------------------------------------------------------
(* The fallback catalog and GET /api/matches. *)

mock_catalogs ==
    << [host |-> <<"m", "a", "n", "g", "a", "d", "e", "x", ".", "o", "r", "g">>,
        titles |-> << <<"F", "r", "i", "e", "r", "e", "n", ":", " ", "B", "e", "y", "o", "n", "d", " ", "J", "o", "u", "r", "n", "e", "y", "'", "s", " ", "E", "n", "d">>,
                    <<"B", "l", "u", "e", " ", "P", "e", "r", "i", "o", "d">>,
                    <<"M", "i", "s", "s", "i", "o", "n", ":", " ", "Y", "o", "z", "a", "k", "u", "r", "a", " ", "F", "a", "m", "i", "l", "y">>,
                    <<"D", "e", "l", "i", "c", "i", "o", "u", "s", " ", "i", "n", " ", "D", "u", "n", "g", "e", "o", "n">> >>],
       [host |-> <<"m", "a", "n", "g", "a", "n", "a", "t", "o", ".", "c", "o", "m">>,
        titles |-> << <<"O", "n", "e", " ", "P", "i", "e", "c", "e">>,
                    <<"B", "l", "u", "e", " ", "L", "o", "c", "k">>,
                    <<"F", "r", "i", "e", "r", "e", "n", ":", " ", "B", "e", "y", "o", "n", "d", " ", "J", "o", "u", "r", "n", "e", "y", "'", "s", " ", "E", "n", "d">>,
                    <<"S", "k", "i", "p", " ", "a", "n", "d", " ", "L", "o", "a", "f", "e", "r">> >>],
       [host |-> <<"t", "c", "b", "s", "c", "a", "n", "s", ".", "c", "o", "m">>,
        titles |-> << <<"O", "n", "e", " ", "P", "i", "e", "c", "e">>,
                    <<"C", "h", "a", "i", "n", "s", "a", "w", " ", "M", "a", "n">>,
                    <<"M", "y", " ", "H", "e", "r", "o", " ", "A", "c", "a", "d", "e", "m", "i", "a">> >>],
       [host |-> <<"c", "o", "m", "i", "k", "e", "y", ".", "c", "o", "m">>,
        titles |-> << <<"M", "y", " ", "W", "i", "f", "e", " ", "H", "a", "s", " ", "N", "o", " ", "E", "m", "o", "t", "i", "o", "n">>,
                    <<"K", "o", "w", "l", "o", "o", "n", " ", "G", "e", "n", "e", "r", "i", "c", " ", "R", "o", "m", "a", "n", "c", "e">>,
                    <<"T", "h", "e", " ", "S", "u", "m", "m", "e", "r", " ", "Y", "o", "u", " ", "W", "e", "r", "e", " ", "T", "h", "e", "r", "e">> >>] >>

\* the tokens with the spaces of the normalized names kept
series_tokens_spaced(title, aliases) ==
    {normalize_text(v) : v \in {x \in Range(<<title>> \o aliases) : x # <<>>}} \ {<<>>}

\* the canonical tokens of a title and its aliases
series_tokens(title, aliases) ==
    {canonicalize_title(v) : v \in {x \in Range(<<title>> \o aliases) : x # <<>>}} \ {<<>>}

\* build_canonical_map: token -> title of the first record that has it
CanonicalTitle(records, token) ==
    LET has == {i \in 1..Len(records) : token \in series_tokens(records[i].title, records[i].aliases)}
    IN IF has = {} THEN None
       ELSE Some(records[CHOOSE i \in has : \A j \in has : i <= j].title)

\* the loop of collect_mock_matches over the catalog of one site
RECURSIVE ScanCatalog(_, _, _, _, _)
ScanCatalog(match_index, site, titles, records, j) ==
    IF j > Len(titles) THEN match_index
    ELSE LET owner == CanonicalTitle(records, canonicalize_title(titles[j]))
             source_label == IF site.label # <<>> THEN site.label ELSE normalize_host(site.url)
         IN ScanCatalog(
                IF IsNone(owner) THEN match_index
                ELSE PutMatch(match_index, Get(owner),
                              SourceHit(source_label, site.url, None, None, <<>>, Lower(site.url.host))),
                site, titles, records, j + 1)

RECURSIVE ScanMockSites(_, _, _, _)
ScanMockSites(match_index, sites, records, i) ==
    IF i > Len(sites) THEN match_index
    ELSE LET cat == {c \in 1..Len(mock_catalogs) : mock_catalogs[c].host = normalize_host(sites[i].url)}
         IN ScanMockSites(
                IF cat = {} THEN match_index
                ELSE ScanCatalog(match_index, sites[i], mock_catalogs[CHOOSE c \in cat : TRUE].titles,
                                 records, 1),
                sites, records, i + 1)

collect_mock_matches(sites, records) ==
    IF \A i \in 1..Len(records) : series_tokens(records[i].title, records[i].aliases) = {}
    THEN <<>>
    ELSE serialize_matches(ScanMockSites(<<>>, sites, records, 1))

\* whether now_reading creates the refresh task, from what the scan returned
now_reading_refreshes(matches, missing_cache) == matches = <<>> /\ missing_cache

\* the result of now_reading on a store: the response, whether it creates
\* the task refresh_site_cache(websites), and the sites the scan found
\* without a snapshot
NowReading(sites, records, cache, meta) ==
    IF sites = <<>> \/ records = <<>> \/ build_series_terms(records) = <<>>
    THEN [matches |-> <<>>, refresh |-> FALSE, missing |-> {}]
    ELSE With(matches_from_cache(sites, build_series_terms(records), cache, meta),
              LAMBDA scan :
                  [matches |-> IF scan.matches # <<>> THEN scan.matches
                               ELSE collect_mock_matches(sites, records),
                   refresh |-> now_reading_refreshes(scan.matches, scan.missing_cache),
                   missing |-> {sites[i].id : i \in {j \in 1..Len(sites) :
                                                        sites[j].id \notin DOMAIN cache}}])

----------------------------------------------------------------------------
(* Inputs of the API handlers. *)

UrlA == Url(<<"a">>, <<>>, <<>>)
UrlB == Url(<<"b">>, <<>>, <<>>)
UrlC == Url(<<"c">>, <<>>, <<>>)
LabelX == <<"x">>
TwoPages == PaginationConfig("model", "query", Some(<<"p">>), None, 1, 2)

Payload(label, url, pagination) ==
    [label |-> label, url |-> url, pagination |-> pagination, auth_cookies |-> None]

\* WebsiteCreate payloads
CreateInputs == {Payload(LabelX, u, None) : u \in {UrlA, UrlB}}

\* WebsiteUpdate payloads, one field set each: an unset field is None, and
\* pagination is <<v>> when set to v, which may be null
UpdateInputs == {Payload(None, Some(u), None) : u \in {UrlA, UrlB, UrlC}}

\* what a page request can end in: a 2xx response, an httpx.HTTPError
\* (network error, timeout, non-2xx status), or another exception
PageOutcomes == {"ok", "fail", "raise"}

\* the values datetime.now(timezone.utc) takes
Timestamps == 0..MaxTime

----------------------------------------------------------------------------
(* Site CRUD handlers. *)

LeastFreeRun == CHOOSE x \in FreeApiRuns : \A y \in FreeApiRuns : x <= y

\* POST /api/sites: add_site, then create_task(refresh_site_cache([site]));
\* a 409 of add_site ends the handler
create_site(payload) ==
    /\ nextSiteId < MaxSites
    /\ IF HostTaken(websites, payload.url, {})
       THEN /\ seen' = seen \cup {"conflict"}
            /\ UNCHANGED <<websites, nextSiteId, runs>>
       ELSE /\ FreeApiRuns # {}
            /\ LET id == nextSiteId + 1
                   site == Website(id, payload.label, payload.url, payload.pagination)
               IN /\ websites' = MapSet(websites, id, site)
                  /\ nextSiteId' = id
                  /\ runs' = MapSet(runs, LeastFreeRun, NewRun(<<site>>))
            /\ UNCHANGED seen
    /\ UNCHANGED <<series, nextSeriesId, site_cache, site_cache_meta, poller_task, pollers,
                   awaitFresh, resp, reauth, pin, pout>>

\* a run that targets site_id was started before this change of its URL
MarkStale(rs, site_id) ==
    [r \in DOMAIN rs |->
        IF site_id \in TargetIds(rs[r]) THEN [rs[r] EXCEPT !.stale = @ \cup {site_id}] ELSE rs[r]]

\* an update that drops the snapshot before it looks for the host among the
\* other sites
update_site_purges(site_id, payload) ==
    IF site_id \notin DOMAIN websites THEN UNCHANGED vars
    ELSE IF ~IsNone(payload.url) /\ HostTaken(websites, Get(payload.url), {site_id})
    THEN /\ seen' = seen \cup {"conflict"}
         /\ site_cache' = MapPop(site_cache, site_id)
         /\ site_cache_meta' = MapPop(site_cache_meta, site_id)
         /\ UNCHANGED <<websites, nextSiteId, series, nextSeriesId, taskVars, awaitFresh, resp,
                        reauth, pin, pout>>
    ELSE /\ FreeApiRuns # {}
         /\ LET site == UpdatedSite(websites[site_id], payload)
                changed == site.url # websites[site_id].url
            IN /\ websites' = MapSet(websites, site_id, site)
               /\ site_cache' = IF PurgesSnapshot(payload) THEN MapPop(site_cache, site_id) ELSE site_cache
               /\ site_cache_meta' = IF PurgesSnapshot(payload) THEN MapPop(site_cache_meta, site_id)
                                     ELSE site_cache_meta
               /\ runs' = MapSet(IF changed THEN MarkStale(runs, site_id) ELSE runs,
                                 LeastFreeRun, NewRun(<<site>>))
               /\ awaitFresh' = IF changed THEN awaitFresh \cup {site_id} ELSE awaitFresh
         /\ UNCHANGED <<nextSiteId, series, nextSeriesId, poller_task, pollers, seen, resp, reauth, pin, pout>>

\* PUT /api/sites/{site_id}: update_site, then create_task(refresh_site_cache([site]));
\* a 404 or a 409 of update_site ends the handler
update_site(site_id, payload) ==
    IF site_id \notin DOMAIN websites THEN UNCHANGED vars
    ELSE IF ~IsNone(payload.url) /\ HostTaken(websites, Get(payload.url), {site_id})
    THEN /\ seen' = seen \cup {"conflict"}
         /\ UNCHANGED <<storeVars, taskVars, awaitFresh, resp, reauth, pin, pout>>
    ELSE /\ FreeApiRuns # {}
         /\ LET site == UpdatedSite(websites[site_id], payload)
                changed == site.url # websites[site_id].url
            IN /\ websites' = MapSet(websites, site_id, site)
               /\ site_cache' = IF PurgesSnapshot(payload) THEN MapPop(site_cache, site_id) ELSE site_cache
               /\ site_cache_meta' = IF PurgesSnapshot(payload) THEN MapPop(site_cache_meta, site_id)
                                     ELSE site_cache_meta
               /\ runs' = MapSet(IF changed THEN MarkStale(runs, site_id) ELSE runs,
                                 LeastFreeRun, NewRun(<<site>>))
               /\ awaitFresh' = IF changed THEN awaitFresh \cup {site_id} ELSE awaitFresh
         /\ UNCHANGED <<nextSiteId, series, nextSeriesId, poller_task, pollers, seen, resp, reauth, pin, pout>>

\* DELETE /api/sites/{site_id}: remove_site
delete_site(site_id) ==
    /\ IF site_id \notin DOMAIN websites
       THEN UNCHANGED <<websites, site_cache, site_cache_meta, awaitFresh>>
       ELSE /\ websites' = MapPop(websites, site_id)
            /\ site_cache' = MapPop(site_cache, site_id)
            /\ site_cache_meta' = MapPop(site_cache_meta, site_id)
            /\ awaitFresh' = awaitFresh \ {site_id}
    /\ UNCHANGED <<nextSiteId, series, nextSeriesId, runs, poller_task, pollers, seen, resp, reauth, pin, pout>>

\* GET /api/matches
now_reading ==
    /\ \E res \in {NowReading(Values(websites), Values(series), site_cache, site_cache_meta)} :
          /\ res.refresh => FreeApiRuns # {}
          /\ runs' = IF res.refresh THEN MapSet(runs, LeastFreeRun, NewRun(Values(websites))) ELSE runs
          /\ resp' = Some([matches |-> res.matches, missing |-> res.missing, refresh |-> res.refresh])
    /\ UNCHANGED <<storeVars, poller_task, pollers, awaitFresh, seen, reauth, pin, pout>>

----------------------------------------------------------------------------
(* refresh_site_cache and poll_sites_loop. *)

\* a loop that an exception of its tick ends
poll_after_tick_dies(raised) == IF raised THEN "dead" ELSE "sleeping"

\* the state of poll_sites_loop after the await of refresh_site_cache came
\* back, by a return or by an exception: it sleeps, then loops
poll_after_tick(raised) == "sleeping"

\* one page request of fetch_site_body for target k of run r comes back
FetchPage(r, k, outcome) ==
    /\ RunActive(r)
    /\ k \in 1..Len(runs[r].targets)
    /\ ~PagesDone(runs[r], k)
    /\ LET run == runs[r]
           page_url == build_page_urls(run.targets[k])[Len(run.prog[k].log) + 1]
       IN IF outcome = "raise"
          THEN /\ runs' = MapPop(runs, r)
               /\ pollers' = IF r < 0
                             THEN [pollers EXCEPT ![-r] = [@ EXCEPT !.pc = poll_after_tick(TRUE),
                                                                    !.raised = TRUE]]
                             ELSE pollers
          ELSE /\ runs' = [runs EXCEPT ![r].prog[k] =
                              [log |-> Append(@.log, outcome),
                               pages |-> fetch_page(@.pages, page_url, outcome)]]
               /\ UNCHANGED pollers
    /\ UNCHANGED <<storeVars, poller_task, awaitFresh, seen, resp, reauth, pin, pout>>

\* the sites whose snapshot the completion of a run removes
Purged(run) ==
    {run.targets[k].id : k \in {j \in 1..Len(run.targets) :
                                   run.prog[j].pages = <<>> /\ run.targets[j].id \in DOMAIN site_cache}}

\* fetch_site_bodies returned: refresh_site_cache stamps and writes the snapshots
RefreshComplete(r, now) ==
    /\ RunActive(r)
    /\ RunDone(runs[r])
    /\ LET c == WriteSnapshots([cache |-> site_cache, meta |-> site_cache_meta], runs[r], 1, now)
       IN /\ site_cache' = c.cache
          /\ site_cache_meta' = c.meta
    /\ runs' = MapPop(runs, r)
    /\ pollers' = IF r < 0
                  THEN [pollers EXCEPT ![-r] = [@ EXCEPT !.pc = poll_after_tick(FALSE), !.raised = FALSE]]
                  ELSE pollers
    /\ awaitFresh' = awaitFresh \ (TargetIds(runs[r]) \ runs[r].stale)
    /\ seen' = IF Purged(runs[r]) # {} THEN seen \cup {"purged"} ELSE seen
    /\ UNCHANGED <<websites, nextSiteId, series, nextSeriesId, poller_task, resp, reauth, pin, pout>>

\* poll_sites_loop starts a tick: refresh_site_cache() of all the sites
PollTick(p) ==
    /\ p \in DOMAIN pollers
    /\ ~pollers[p].cancel
    /\ pollers[p].pc \in {"created", "sleeping"}
    /\ LET targets == Values(websites)
       IN IF targets = <<>>
          THEN /\ pollers' = [pollers EXCEPT ![p] = [@ EXCEPT !.pc = poll_after_tick(FALSE),
                                                              !.raised = FALSE]]
               /\ UNCHANGED runs
          ELSE /\ pollers' = [pollers EXCEPT ![p].pc = "fetching"]
               /\ runs' = MapSet(runs, PollerRun(p), NewRun(targets))
    /\ UNCHANGED <<storeVars, poller_task, awaitFresh, seen, resp, reauth, pin, pout>>

\* start_poller that creates a task whatever the handle holds
start_poller_always(handle) == TRUE

\* start_poller creates a task only while the handle is None
start_poller_creates(handle) == IsNone(handle)

start_poller ==
    /\ Cardinality(DOMAIN pollers) < MaxPollers
    /\ IF start_poller_creates(poller_task)
       THEN LET p == Cardinality(DOMAIN pollers) + 1
            IN /\ pollers' = MapSet(pollers, p,
                                    [pc |-> "created", cancel |-> FALSE, raised |-> FALSE])
               /\ poller_task' = Some(p)
       ELSE UNCHANGED <<pollers, poller_task>>
    /\ UNCHANGED <<storeVars, runs, awaitFresh, seen, resp, reauth, pin, pout>>

\* stop_poller up to its await: poller_task.cancel()
stop_poller_cancel ==
    /\ ~IsNone(poller_task)
    /\ ~pollers[Get(poller_task)].cancel
    /\ pollers' = [pollers EXCEPT ![Get(poller_task)].cancel = TRUE]
    /\ UNCHANGED <<storeVars, runs, poller_task, awaitFresh, seen, resp, reauth, pin, pout>>

\* the poller task gets CancelledError at its await and ends
PollerCancelled(p) ==
    /\ p \in DOMAIN pollers
    /\ pollers[p].cancel
    /\ pollers[p].pc # "done"
    /\ pollers' = [pollers EXCEPT ![p] = [@ EXCEPT !.pc = "done", !.raised = FALSE]]
    /\ runs' = MapPop(runs, PollerRun(p))
    /\ seen' = IF PollerRun(p) \in DOMAIN runs THEN seen \cup {"cut"} ELSE seen
    /\ UNCHANGED <<storeVars, poller_task, awaitFresh, resp, reauth, pin, pout>>

\* whether the await of stop_poller lets it go on: the task has ended
stop_poller_awaited(task) == task.pc = "done"

\* stop_poller after its await: poller_task = None
stop_poller_clear ==
    /\ ~IsNone(poller_task)
    /\ pollers[Get(poller_task)].cancel
    /\ stop_poller_awaited(pollers[Get(poller_task)])
    /\ poller_task' = None
    /\ UNCHANGED <<storeVars, runs, pollers, awaitFresh, seen, resp, reauth, pin, pout>>

----------------------------------------------------------------------------
(* The system: the store as loaded from disk, no task yet. *)

Series(id, title, aliases) == [id |-> id, title |-> title, aliases |-> aliases]

TitleAbCd == <<"a", "b", " ", "c", "d">>
OneSeries == [i \in {1} |-> Series(1, TitleAbCd, <<>>)]

NoTasks ==
    /\ site_cache = EmptyMap
    /\ site_cache_meta = EmptyMap
    /\ runs = EmptyMap
    /\ poller_task = None
    /\ pollers = EmptyMap
    /\ awaitFresh = {}
    /\ seen = {}
    /\ resp = None
    /\ reauth = None

NoPure ==
    /\ pin = <<>>
    /\ pout = <<>>

\* the store after load_data found no data file
Init ==
    /\ websites = EmptyMap
    /\ nextSiteId = 0
    /\ series = OneSeries
    /\ nextSeriesId = Cardinality(DOMAIN series)
    /\ NoTasks
    /\ NoPure

\* what a page request of a refresh task ends in
FetchStep(outcomes) ==
    \E r \in DOMAIN runs, k \in 1..MaxSites, outcome \in outcomes : FetchPage(r, k, outcome)

\* site CRUD with the refresh tasks it creates
Next ==
    \/ \E payload \in CreateInputs : create_site(payload)
    \/ \E id \in 1..MaxSites, payload \in UpdateInputs : update_site(id, payload)
    \/ \E id \in 1..MaxSites : delete_site(id)
    \/ FetchStep(PageOutcomes)
    \/ \E r \in DOMAIN runs : RefreshComplete(r, 0)

Spec == Init /\ [][Next]_vars

----------------------------------------------------------------------------
(* The system started on a data file that holds two sites: a store loaded   *)
(* from disk has no snapshot.                                               *)

LabelY == <<"y">>
DiskSite1(pagination) == Website(1, LabelX, UrlA, pagination)
DiskSite2 == Website(2, LabelY, UrlB, None)
DiskStore(pagination) == [i \in {1, 2} |-> IF i = 1 THEN DiskSite1(pagination) ELSE DiskSite2]

InitDisk(stores) ==
    /\ websites \in stores
    /\ nextSiteId = 2
    /\ series = OneSeries
    /\ nextSeriesId = Cardinality(DOMAIN series)
    /\ NoTasks
    /\ NoPure

\* the update that sets the label of a site to the label it has: it leaves
\* the site as it is and refreshes it
Relabel(site_id) == Payload(Some(websites[site_id].label), None, None)

(* Matches queries, with the refresh tasks of queries and of updates. *)
InitQuery == InitDisk({DiskStore(None)})

NextQuery ==
    \/ \E id \in DOMAIN websites : update_site(id, Relabel(id))
    \/ now_reading
    \/ FetchStep({"ok", "fail"})
    \/ \E r \in DOMAIN runs : RefreshComplete(r, 0)

SpecQuery == InitQuery /\ [][NextQuery]_vars

(* Refreshes of one site and of all the sites, side by side. *)
InitFetch == InitDisk({DiskStore(None), DiskStore(Some(TwoPages))})

NextFetch ==
    \/ \E id \in DOMAIN websites : update_site(id, Relabel(id))
    \/ start_poller
    \/ \E p \in PollerIds : PollTick(p)
    \/ FetchStep({"ok", "fail"})
    \/ \E r \in DOMAIN runs, now \in Timestamps : RefreshComplete(r, now)

SpecFetch == InitFetch /\ [][NextFetch]_vars

(* Startup and shutdown events, with the poller tasks they create. *)
InitPoller == InitDisk({DiskStore(None)})

NextPoller ==
    \/ start_poller
    \/ stop_poller_cancel
    \/ \E p \in PollerIds : PollerCancelled(p)
    \/ stop_poller_clear
    \/ \E p \in PollerIds : PollTick(p)
    \/ FetchStep(PageOutcomes)
    \/ \E r \in DOMAIN runs : RefreshComplete(r, 0)

SpecPoller == InitPoller /\ [][NextPoller]_vars

\* the event loop runs every task that is ready: a sleep ends, a request
\* comes back (SCAN_TIMEOUT bounds it), a gather that has all its results returns
Fairness ==
    /\ \A p \in PollerIds : WF_vars(PollTick(p))
    /\ WF_vars(FetchStep(PageOutcomes))
    /\ WF_vars(\E r \in DOMAIN runs : RefreshComplete(r, 0))
    /\ \A p \in PollerIds : WF_vars(PollerCancelled(p))

SpecLive == InitPoller /\ [][NextPoller]_vars /\ Fairness

----------------------------------------------------------------------------
(* build_page_urls on the sites whose pagination config is well-formed for  *)
(* its strategy.                                                            *)

PageBases ==
    {Url(<<"a">>, <<"/", "l">>, q) : q \in {<<>>, <<QP(<<"p">>, <<"5">>)>>, <<QP(<<"q">>, <<"1">>)>>}}

PageTemplate == Url(<<"a">>, <<"/", "l", "/">> \o PagePlaceholder, <<>>)

WellFormedConfigs ==
    {PaginationConfig(form, "query", Some(<<"p">>), None, start, pages) :
        form \in {"model", "dict"}, start \in (-1)..MaxStart, pages \in 1..MaxPages}
    \cup
    {PaginationConfig(form, "path", None, Some(PageTemplate), start, pages) :
        form \in {"model", "dict"}, start \in (-1)..MaxStart, pages \in 1..MaxPages}

PageSites == {Website(1, LabelX, u, Some(c)) : u \in PageBases, c \in WellFormedConfigs}

InitPages ==
    /\ websites = EmptyMap
    /\ nextSiteId = 0
    /\ series = OneSeries
    /\ nextSeriesId = Cardinality(DOMAIN series)
    /\ NoTasks
    /\ pin \in {Some(site) : site \in PageSites}
    /\ pout = None

BuildPages ==
    /\ pin # None
    /\ pout = None
    /\ pout' = Some(build_page_urls(Get(pin)))
    /\ UNCHANGED <<storeVars, taskVars, awaitFresh, seen, resp, reauth, pin>>

NextPages == BuildPages

SpecPages == InitPages /\ [][NextPages]_vars

----------------------------------------------------------------------------
(* locate_series_hit on the candidate lists of a document that lists the    *)
(* series "ab cd" several times.                                            *)

ChapterText(n) == TitleAbCd \o <<" ", "c", "h", " ">> \o n

HitTexts ==
    {ChapterText(<<DigitChar(n)>>) : n \in 1..5}
        \cup {ChapterText(<<"2", ".", "5">>), TitleAbCd}

HitCandidates == {CandidateEntry(t, Some(Url(<<"a">>, <<"/">> \o t, <<>>)), <<>>) : t \in HitTexts}

InitHit ==
    /\ websites = EmptyMap
    /\ nextSiteId = 0
    /\ series = OneSeries
    /\ nextSeriesId = Cardinality(DOMAIN series)
    /\ NoTasks
    /\ pin = Some([title |-> TitleAbCd, candidates |-> <<>>])
    /\ pout = None

\* the document lists one more entry
AddCandidate(c) ==
    /\ Len(Get(pin).candidates) < MaxCands
    /\ c \notin Range(Get(pin).candidates)
    /\ pin' = Some([Get(pin) EXCEPT !.candidates = Append(@, c)])
    /\ pout' = None
    /\ UNCHANGED <<storeVars, taskVars, awaitFresh, seen, resp, reauth>>

LocateHit ==
    /\ pout = None
    /\ pout' = Some(locate_series_hit(Get(pin).candidates, Get(pin).title, UrlA, Some(0)))
    /\ UNCHANGED <<storeVars, taskVars, awaitFresh, seen, resp, reauth, pin>>

NextHit ==
    \/ \E c \in HitCandidates : AddCandidate(c)
    \/ LocateHit

SpecHit == InitHit /\ [][NextHit]_vars

----------------------------------------------------------------------------
(* serialize_matches on the match_index of one series, filled hit by hit.   *)

HitLabels == {<<"a">>, <<"B">>, <<"c">>, <<"D">>}
HitNumbers == {None, Some(NormNum(7, 0)), Some(NormNum(9, 0))}

SourceHits ==
    {SourceHit(l, UrlA, IF n = None THEN None ELSE Some(IntToStr(Get(n).n)), n, <<>>, <<"a">>) :
        l \in HitLabels, n \in HitNumbers}

InitSerialize ==
    /\ websites = EmptyMap
    /\ nextSiteId = 0
    /\ series = OneSeries
    /\ nextSeriesId = Cardinality(DOMAIN series)
    /\ NoTasks
    /\ pin = Some(<<>>)
    /\ pout = None

\* match_index.setdefault(title, {})[hit.site] = hit, for a site that has no hit yet
AddHit(hit) ==
    /\ \A i \in 1..Len(Get(pin)) : Len(Get(pin)[i].hits) < MaxHits
    /\ \A i \in 1..Len(Get(pin)) : \A j \in 1..Len(Get(pin)[i].hits) : Get(pin)[i].hits[j].site # hit.site
    /\ pin' = Some(PutMatch(Get(pin), TitleAbCd, hit))
    /\ pout' = None
    /\ UNCHANGED <<storeVars, taskVars, awaitFresh, seen, resp, reauth>>

Serialize ==
    /\ pout = None
    /\ pout' = Some(serialize_matches(Get(pin)))
    /\ UNCHANGED <<storeVars, taskVars, awaitFresh, seen, resp, reauth, pin>>

NextSerialize ==
    \/ \E hit \in SourceHits : AddHit(hit)
    \/ Serialize

SpecSerialize == InitSerialize /\ [][NextSerialize]_vars

----------------------------------------------------------------------------
(* Matches queries on stores whose sites hold snapshots.                    *)

TitleXyZ == <<"x", "y", " ", "z">>
TwoSeries == [i \in {1, 2} |-> IF i = 1 THEN Series(1, TitleAbCd, <<>>) ELSE Series(2, TitleXyZ, <<>>)]

MatchStores ==
    {[i \in {1, 2} |-> IF i = 1 THEN Website(1, l1, UrlA, None) ELSE Website(2, l2, UrlB, None)] :
        l1 \in {LabelX, LabelY}, l2 \in {LabelX, LabelY}}

\* the snapshots a site can hold: of its own page, or of a page that moved
\* to another host
SnapshotsOf(site) == {Web(site.url), Web(UrlC)}

MatchCaches(sites) ==
    {c \in UNION {[ids -> SnapshotsOf(sites[1]) \cup SnapshotsOf(sites[2])] : ids \in SUBSET {1, 2}} :
        \A id \in DOMAIN c : c[id] \in SnapshotsOf(sites[id])}

InitMatch ==
    /\ websites \in MatchStores
    /\ nextSiteId = 2
    /\ series \in {OneSeries, TwoSeries}
    /\ nextSeriesId = Cardinality(DOMAIN series)
    /\ site_cache \in MatchCaches(websites)
    /\ site_cache_meta = [id \in DOMAIN site_cache |-> 0]
    /\ runs = EmptyMap
    /\ poller_task = None
    /\ pollers = EmptyMap
    /\ awaitFresh = {}
    /\ seen = {}
    /\ resp = None
    /\ reauth = None
    /\ NoPure

NextMatch == now_reading

SpecMatch == InitMatch /\ [][NextMatch]_vars

----------------------------------------------------------------------------
(* C1: after update_site changed the URL of a site, the site has no         *)
(* snapshot (so every matches query finds it cache-missing) until a fetch   *)
(* of it that started after the update completes, whatever refresh of the   *)
(* site was in flight when the update happened.                             *)
C1_NoSnapshotUntilFreshFetch ==
    \A s \in awaitFresh : s \notin DOMAIN site_cache

\* a refresh of the site that holds its old URL is in flight after the update
C1_StaleRefreshInFlight ==
    \E s \in awaitFresh : \E r \in DOMAIN runs : s \in runs[r].stale

----------------------------------------------------------------------------
\* the step completes run r: fetch_site_bodies returned and the snapshots are written
Completes(r) ==
    /\ RunActive(r)
    /\ RunDone(runs[r])
    /\ r \notin DOMAIN runs'

\* what the fetch of target k of a run produced
Body(run, k) == JoinPages(run.prog[k].pages)

(* C2: when a refresh completes, every target whose fetch produced content  *)
(* holds that content stamped with the one timestamp of the refresh, every  *)
(* target whose fetch produced nothing has no snapshot, and the snapshots   *)
(* of the sites that were not targeted are unchanged.                       *)
C2_CompletionWritesTargets ==
    [][\A r \in DOMAIN runs :
          Completes(r) =>
              \E now \in Timestamps :
                  /\ \A k \in 1..Len(runs[r].targets) :
                        LET id == runs[r].targets[k].id
                        IN IF Body(runs[r], k) # <<>>
                           THEN /\ id \in DOMAIN site_cache'
                                /\ site_cache'[id] = Body(runs[r], k)
                                /\ id \in DOMAIN site_cache_meta'
                                /\ site_cache_meta'[id] = now
                           ELSE /\ id \notin DOMAIN site_cache'
                                /\ id \notin DOMAIN site_cache_meta'
                  /\ \A id \in (DOMAIN site_cache \cup DOMAIN site_cache') \ TargetIds(runs[r]) :
                        /\ id \in DOMAIN site_cache /\ id \in DOMAIN site_cache'
                        /\ site_cache'[id] = site_cache[id]
                        /\ site_cache_meta'[id] = site_cache_meta[id]]_vars

\* a completion removed the snapshot of one target, and the store holds the
\* snapshot of another site
C2_PurgedAndKept ==
    /\ "purged" \in seen
    /\ \E id \in DOMAIN websites : id \notin DOMAIN site_cache
    /\ \E id \in DOMAIN site_cache : id \in DOMAIN site_cache_meta

----------------------------------------------------------------------------
\* the documents of the requests of log that succeeded, in page order
RECURSIVE PagesOf(_, _, _)
PagesOf(page_urls, log, i) ==
    IF i > Len(log) THEN <<>>
    ELSE (IF log[i] = "ok" THEN <<Web(page_urls[i])>> ELSE <<>>) \o PagesOf(page_urls, log, i + 1)

\* the step is a page request of target k of run r that fails
FailsPage(r, k) ==
    /\ r \in DOMAIN runs'
    /\ runs'[r].prog[k].log = Append(runs[r].prog[k].log, "fail")

(* C3: within one refresh the pages a site has gathered are the documents   *)
(* of its requests that succeeded, in page order, and none when all failed; *)
(* a request that fails leaves the refresh running, the pages of every      *)
(* target as they were and the snapshots untouched; and a refresh completes *)
(* only when every page of every target was requested.                      *)
C3_FailedPageDropsOnlyItself ==
    /\ [](\A r \in DOMAIN runs : \A k \in 1..Len(runs[r].targets) :
            LET page_urls == build_page_urls(runs[r].targets[k])
                p == runs[r].prog[k]
            IN /\ Len(p.log) <= Len(page_urls)
               /\ p.pages = PagesOf(page_urls, p.log, 1)
               /\ ("ok" \notin Range(p.log) => Body(runs[r], k) = <<>>))
    /\ [][\A r \in DOMAIN runs :
            /\ \A k \in 1..Len(runs[r].targets) :
                  FailsPage(r, k) =>
                      /\ \A j \in 1..Len(runs[r].targets) :
                            /\ runs'[r].prog[j].pages = runs[r].prog[j].pages
                            /\ j # k => runs'[r].prog[j] = runs[r].prog[j]
                      /\ site_cache' = site_cache
                      /\ site_cache_meta' = site_cache_meta
            /\ Completes(r) =>
                  \A k \in 1..Len(runs[r].targets) :
                      Len(runs[r].prog[k].log) = Len(build_page_urls(runs[r].targets[k]))]_vars

\* a refresh of both sites has made all its requests: the first page of one
\* site failed and its second page succeeded, the only page of the other failed
C3_FailureThenSuccess ==
    \E r \in DOMAIN runs :
        /\ RunDone(runs[r])
        /\ Len(runs[r].targets) = 2
        /\ runs[r].prog[1].log = <<"fail", "ok">>
        /\ Len(runs[r].prog[1].pages) = 1
        /\ runs[r].prog[2].log = <<"fail">>

----------------------------------------------------------------------------
\* the step is a matches query that found a tracked site without a snapshot
QueryFindsMissing ==
    /\ resp' # resp
    /\ Get(resp').missing # {}

(* C4: a matches query that finds a tracked site without a snapshot starts  *)
(* a refresh task, and responds without waiting for it.                     *)
C4_MissingSnapshotStartsRefresh ==
    [][QueryFindsMissing => \E r \in DOMAIN runs' : r \notin DOMAIN runs]_vars

----------------------------------------------------------------------------
Ticking(p) == p \in DOMAIN pollers /\ pollers[p].pc = "fetching"

(* C5: a tick that raises does not end the loop: a poller is asleep, in a   *)
(* tick or ended by its cancellation, never ended by an error, and every    *)
(* poller that exists is, again and again, in a tick or cancelled.          *)
C5_LoopSurvivesFailedTick ==
    /\ [](\A p \in DOMAIN pollers :
            /\ pollers[p].pc \in {"created", "sleeping", "fetching", "done"}
            /\ pollers[p].pc = "done" => pollers[p].cancel)
    /\ \A p \in PollerIds : [](p \in DOMAIN pollers => <>(Ticking(p) \/ Cancelled(p)))

\* a poller whose last tick raised is in its next tick
C5_TickAfterFailedTick ==
    \E p \in DOMAIN pollers : Ticking(p) /\ pollers[p].raised /\ ~pollers[p].cancel

----------------------------------------------------------------------------
LivePollers == {p \in DOMAIN pollers : pollers[p].pc # "done"}

(* C6: at most one poller task exists at a time; once stop_poller has       *)
(* completed the handle is None and no poller task exists; and a poller     *)
(* whose cancellation was requested takes no step but its end, which leaves *)
(* the snapshots alone and ends the tick it was in.                         *)
C6_OnePollerCleanStop ==
    /\ [](Cardinality(LivePollers) <= 1)
    /\ [](IsNone(poller_task) => LivePollers = {} /\ \A p \in DOMAIN pollers : PollerRun(p) \notin DOMAIN runs)
    /\ [][\A p \in DOMAIN pollers :
            Cancelled(p) =>
                /\ PollerRun(p) \in DOMAIN runs' => runs'[PollerRun(p)] = runs[PollerRun(p)]
                /\ (pollers'[p] # pollers[p] \/ PollerRun(p) \in (DOMAIN runs) \ DOMAIN runs') =>
                      /\ pollers'[p].pc = "done"
                      /\ PollerRun(p) \notin DOMAIN runs'
                      /\ site_cache' = site_cache
                      /\ site_cache_meta' = site_cache_meta]_vars

\* stop_poller has completed on a poller that was cancelled in a tick, and
\* the poller started since is in a tick
C6_StoppedInFlight ==
    /\ "cut" \in seen
    /\ Cardinality(DOMAIN pollers) = 2
    /\ pollers[1].pc = "done"
    /\ pollers[2].pc = "fetching"
    /\ poller_task = Some(2)

----------------------------------------------------------------------------
(* C10: for a pagination config that is well-formed for its strategy, with  *)
(* pages = n >= 1 and start = s, build_page_urls returns the n URLs of the  *)
(* page numbers s, s+1, ..., s+n-1, in that order and pairwise distinct.    *)
C10_PagesFromStart ==
    pout # None =>
        LET site == Get(pin)
            config == Get(site.pagination)
            urls == Get(pout)
        IN /\ Len(urls) = config.pages
           /\ \A i \in 1..Len(urls) : urls[i] = PageUrl(site.url, config, config.start + i - 1)
           /\ \A i, j \in 1..Len(urls) : i # j => urls[i] # urls[j]

----------------------------------------------------------------------------
\* the sites whose snapshot holds a candidate that structurally matches title
SitesHolding(title) ==
    {id \in DOMAIN websites :
        /\ id \in DOMAIN site_cache
        /\ \E i \in 1..Len(extract_candidate_entries(site_cache[id], websites[id].url)) :
              LET entry == extract_candidate_entries(site_cache[id], websites[id].url)[i]
              IN is_structural_match(normalize_text(title), Split(normalize_text(title)),
                                     entry.norm, entry.tokens)}

(* C7: for a tracked series and the tracked sites whose snapshots hold a    *)
(* candidate that structurally matches it, a matches query returns exactly  *)
(* one Match for the series, with one Source Hit for each of those sites.   *)
C7_OneHitPerSite ==
    resp # None =>
        \A sid \in DOMAIN series :
            LET title == series[sid].title
                holding == SitesHolding(title)
                found == {i \in 1..Len(Get(resp).matches) : Get(resp).matches[i].title = title}
            IN holding # {} =>
                  /\ Cardinality(found) = 1
                  /\ \A i \in found :
                        /\ Len(Get(resp).matches[i].sources) = Cardinality(holding)
                        /\ \A id \in holding :
                              \E j \in 1..Len(Get(resp).matches[i].sources) :
                                  Get(resp).matches[i].sources[j].site_host = Lower(websites[id].url.host)

----------------------------------------------------------------------------
\* hit x may stand before hit y in a Match
InOrder(x, y) ==
    LET nx == x.latest_chapter_number
        ny == y.latest_chapter_number
    IN IF IsNone(nx) THEN IsNone(ny) /\ StrLeq(Lower(x.site), Lower(y.site))
       ELSE IF IsNone(ny) THEN TRUE
       ELSE IF nx # ny THEN NumLess(Get(ny), Get(nx))
       ELSE StrLeq(Lower(x.site), Lower(y.site))

(* C8: in every Match of serialize_matches the Source Hits stand by         *)
(* descending latest chapter number, hits of equal number by site label     *)
(* ascending (letter case ignored, as the sort key lower-cases the label),  *)
(* and every hit without a number after every hit that has one; the Match   *)
(* holds the hits of the match_index, each once.                            *)
C8_SourcesOrdered ==
    pout # None =>
        /\ Len(Get(pout)) = Len(Get(pin))
        /\ \A m \in 1..Len(Get(pout)) :
              LET sources == Get(pout)[m].sources
              IN /\ \A i, j \in 1..Len(sources) : i < j => InOrder(sources[i], sources[j])
                 /\ Len(sources) = Len(Get(pin)[m].hits)
                 /\ Range(sources) = Range(Get(pin)[m].hits)

\* three hits were serialized: the one without a number was first in the
\* match_index, and two of equal number have labels of different case
C8_ThreeHits ==
    /\ pout # None
    /\ Len(Get(pout)) = 1
    /\ Len(Get(pin)[1].hits) = 3
    /\ IsNone(Get(pin)[1].hits[1].latest_chapter_number)
    /\ Get(pout)[1].sources[1].latest_chapter_number = Get(pout)[1].sources[2].latest_chapter_number
    /\ Get(pout)[1].sources[1].site = <<"a">>
    /\ Get(pout)[1].sources[2].site = <<"B">>
    /\ IsNone(Get(pout)[1].sources[3].latest_chapter_number)

----------------------------------------------------------------------------
(* C9: the chapter listings locate_series_hit returns are at most 5, none   *)
(* with a null number stands before one with a number, and those with a     *)
(* number stand in descending order of number.                              *)
C9_ListingsBounded ==
    (pout # None /\ Get(pout) # None) =>
        LET listings == Get(Get(pout)).chapter_list
        IN /\ Len(listings) <= 5
           /\ \A i, j \in 1..Len(listings) :
                 i < j =>
                     /\ ~(IsNone(listings[i].number) /\ ~IsNone(listings[j].number))
                     /\ (~IsNone(listings[i].number) /\ ~IsNone(listings[j].number)) =>
                           ~NumLess(Get(listings[i].number), Get(listings[j].number))

\* six candidates with six chapter numbers, found in ascending order, gave
\* five listings
C9_SixChapters ==
    /\ pout # None
    /\ Get(pout) # None
    /\ Len(Get(pin).candidates) = 6
    /\ Len(Get(Get(pout)).chapter_list) = 5
    /\ Get(pin).candidates[1].text = ChapterText(<<"1">>)
    /\ Get(pin).candidates[2].text = ChapterText(<<"2">>)
    /\ Get(pin).candidates[6].text = ChapterText(<<"2", ".", "5">>)

\* the only candidate names no chapter: the one listing has a null number
C9_NullListing ==
    /\ pout # None
    /\ Get(pout) # None
    /\ Len(Get(Get(pout)).chapter_list) = 1
    /\ IsNone(Get(Get(pout)).chapter_list[1].number)


----------------------------------------------------------------------------
(* build_page_urls on the sites whose pagination config is malformed or     *)
(* incomplete: a query strategy without a parameter name, a path strategy   *)
(* without a template that holds the placeholder, a dict PaginationConfig   *)
(* rejects, a value that is neither.                                        *)

PlainTemplate == Url(<<"a">>, <<"/", "l", "/", "2">>, <<>>)

MalformedConfigs ==
    {PaginationConfig(form, "query", parameter, None, start, pages) :
        form \in {"model", "dict"}, parameter \in {None, Some(<<>>)},
        start \in (-1)..MaxStart, pages \in 1..MaxPages}
    \cup
    {PaginationConfig(form, "path", Some(<<"p">>), template, start, pages) :
        form \in {"model", "dict"}, template \in {None, Some(PlainTemplate)},
        start \in (-1)..MaxStart, pages \in 1..MaxPages}
    \cup
    {PaginationConfig(form, "query", Some(<<"p">>), None, 1, pages) :
        form \in {"baddict", "other"}, pages \in 1..MaxPages}

MalformedSites == {Website(1, LabelX, u, Some(c)) : u \in PageBases, c \in MalformedConfigs}

InitMalformed ==
    /\ websites = EmptyMap
    /\ nextSiteId = 0
    /\ series = OneSeries
    /\ nextSeriesId = Cardinality(DOMAIN series)
    /\ NoTasks
    /\ pin \in {Some(site) : site \in MalformedSites}
    /\ pout = None

NextMalformed == BuildPages

SpecMalformed == InitMalformed /\ [][NextMalformed]_vars

(* C11: for every malformed or incomplete pagination config, whatever its   *)
(* page count, build_page_urls returns exactly one URL, the base URL of the *)
(* site.                                                                    *)
C11_MalformedGivesBase ==
    pout # None => Get(pout) = <<Get(pin).url>>


----------------------------------------------------------------------------
(* Site CRUD on URLs whose hosts differ by letter case and by the "www."    *)
(* prefix only.                                                             *)

UrlUpperA == Url(<<"A">>, <<>>, <<>>)
UrlWwwA == Url(<<"w", "w", "w", ".", "a">>, <<>>, <<>>)
UrlWwwB == Url(<<"W", "W", "W", ".", "b">>, <<>>, <<>>)

HostUrls == {UrlA, UrlUpperA, UrlWwwA, UrlB, UrlWwwB}

InitSites == Init

NextSites ==
    \/ \E u \in HostUrls : create_site(Payload(LabelX, u, None))
    \/ \E id \in 1..MaxSites, u \in HostUrls : update_site(id, Payload(None, Some(u), None))
    \/ \E id \in 1..MaxSites : delete_site(id)
    \/ FetchStep({"ok"})
    \/ \E r \in DOMAIN runs : RefreshComplete(r, 0)

SpecSites == InitSites /\ [][NextSites]_vars

\* the step leaves the tracked sites as they were
SitesKept == websites' = websites /\ nextSiteId' = nextSiteId

(* C12: no two tracked sites have the same normalized host, and the step    *)
(* that first reports a conflict leaves the tracked sites as they were.     *)
C12_HostsUnique ==
    /\ [](\A i, j \in DOMAIN websites :
            i # j => normalize_host(websites[i].url) # normalize_host(websites[j].url))
    /\ [][("conflict" \in seen' /\ "conflict" \notin seen) => SitesKept]_vars

\* two sites are tracked after a conflict was reported, one of them under a
\* host that is not in normal form
C12_TwoSitesAfterConflict ==
    /\ "conflict" \in seen
    /\ Cardinality(DOMAIN websites) = 2
    /\ \E i \in DOMAIN websites : websites[i].url.host # normalize_host(websites[i].url)


----------------------------------------------------------------------------
(* Refreshes of the sites, two at a time, side by side with the requests    *)
(* that drop a snapshot: a URL update and a removal.                        *)

InitSnapshot == InitDisk({DiskStore(Some(TwoPages))})

NextSnapshot ==
    \/ \E id \in DOMAIN websites : update_site(id, Relabel(id))
    \/ \E id \in DOMAIN websites : update_site(id, Payload(None, Some(UrlC), None))
    \/ \E id \in 1..MaxSites : delete_site(id)
    \/ FetchStep({"ok", "fail"})
    \/ \E r \in DOMAIN runs : RefreshComplete(r, 0)

SpecSnapshot == InitSnapshot /\ [][NextSnapshot]_vars

\* the whole output of the fetch of target k of a run that made all its requests
FetchOutput(run, k) ==
    JoinPages(PagesOf(build_page_urls(run.targets[k]), run.prog[k].log, 1))

(* C13: a site has a cached body exactly when it has a capture timestamp,   *)
(* no cached body is empty, and a step that gives a site a cached body it   *)
(* did not have completes a refresh that targets the site and stores the    *)
(* whole output of that refresh's fetch of the site: the documents of all   *)
(* its page requests that succeeded, in page order.                         *)
C13_WholeSnapshots ==
    /\ [](DOMAIN site_cache = DOMAIN site_cache_meta)
    /\ [](\A id \in DOMAIN site_cache : site_cache[id] # <<>>)
    /\ [][\A id \in DOMAIN site_cache' :
            \/ id \in DOMAIN site_cache /\ site_cache'[id] = site_cache[id]
            \/ \E r \in DOMAIN runs :
                  /\ Completes(r)
                  /\ \E k \in 1..Len(runs[r].targets) :
                        /\ runs[r].targets[k].id = id
                        /\ Len(runs[r].prog[k].log) = Len(build_page_urls(runs[r].targets[k]))
                        /\ site_cache'[id] = FetchOutput(runs[r], k)]_vars

\* a site holds the two pages of one fetch while another fetch of it has
\* gathered one page
C13_SnapshotBesideFetch ==
    \E id \in DOMAIN site_cache :
        /\ Len(site_cache[id]) = 3
        /\ \E r \in DOMAIN runs : \E k \in 1..Len(runs[r].targets) :
              /\ runs[r].targets[k].id = id
              /\ Len(runs[r].prog[k].pages) = 1
              /\ Len(runs[r].prog[k].log) = 1


----------------------------------------------------------------------------
(* Reauthentication: POST /api/sites/{site_id}/reauth.                      *)

\* a cookie: of the browser's jar (its value may be None) or a StoredCookie
StoredCookie(name, value, domain) == [name |-> name, value |-> value, domain |-> domain]

EndsWith(s, suffix) ==
    Len(s) >= Len(suffix) /\ SubSeq(s, Len(s) - Len(suffix) + 1, Len(s)) = suffix

\* str.lstrip(".")
RECURSIVE LStripDots(_)
LStripDots(s) == IF s # <<>> /\ Head(s) = "." THEN LStripDots(Tail(s)) ELSE s

domain_matches(cookie_domain, host) ==
    IF cookie_domain = <<>> \/ host = <<>> THEN FALSE
    ELSE \E cdomain \in {Lower(LStripDots(cookie_domain))}, h \in {Lower(LStripDots(host))} :
            \/ h = cdomain
            \/ EndsWith(h, <<".">> \o cdomain)
            \/ EndsWith(cdomain, <<".">> \o h)

\* the set of lower-cased names, or None for an empty list
IncludeSet(include_names) ==
    IF include_names = <<>> THEN None ELSE Some({Lower(include_names[i]) : i \in 1..Len(include_names)})

\* whether the loop of collect_browser_cookies keeps a cookie of the jar
KeepsCookie(cookie, host, include) ==
    /\ cookie.name # <<>>
    /\ (~IsNone(include) /\ Get(include) # {}) => Lower(cookie.name) \in Get(include)
    /\ domain_matches(cookie.domain, host)
    /\ ~IsNone(cookie.value)

\* collect_browser_cookies with browser_cookie3 present; jar is what
\* browser_cookie3.load returned, None when it raised
collect_browser_cookies(jar, host, include) ==
    IF host = <<>> \/ IsNone(jar) THEN <<>>
    ELSE [i \in 1..Len(SelectSeq(Get(jar), LAMBDA c : KeepsCookie(c, host, include))) |->
             With(SelectSeq(Get(jar), LAMBDA c : KeepsCookie(c, host, include))[i],
                  LAMBDA c : StoredCookie(c.name, Get(c.value), c.domain))]

\* the process environment: whether browser_cookie3 was imported, os.name,
\* DBUS_SESSION_BUS_ADDRESS, and whether dbus-launch runs and prints the address
Env(lib, posix, dbus, launch) == [lib |-> lib, posix |-> posix, dbus |-> dbus, launch |-> launch]

ensure_cookie_capture_ready(env) ==
    IF ~env.lib THEN FALSE
    ELSE IF ~env.posix THEN TRUE
    ELSE IF env.dbus THEN TRUE
    ELSE env.launch

\* the entries of manual_cookies whose value is not empty; manual_cookies
\* is None or the list of the (name, value) items of the dict
ManualEntries(manual_cookies) ==
    IF IsNone(manual_cookies) THEN <<>>
    ELSE SelectSeq(Get(manual_cookies), LAMBDA e : e.v # <<>>)

build_manual_cookies(host, entries) ==
    [i \in 1..Len(SelectSeq(entries, LAMBDA e : e.k # <<>>)) |->
        With(SelectSeq(entries, LAMBDA e : e.k # <<>>)[i],
             LAMBDA e : StoredCookie(Strip(e.k), Strip(e.v),
                                     IF StartsWith(host, <<".">>) THEN host ELSE <<".">> \o host))]

ReauthRequest(wait_seconds, include_names, manual_cookies) ==
    [wait_seconds |-> wait_seconds, include_names |-> include_names, manual_cookies |-> manual_cookies]

MinWaitSeconds == 5
MaxWaitSeconds == 180
SleepSeconds == 2

\* a budget that is the requested wait
wait_budget_asked(wait_seconds) == wait_seconds

\* max(5, min(payload.wait_seconds or 0, 180))
wait_budget(wait_seconds) ==
    Max2(MinWaitSeconds, Min2(IF wait_seconds = 0 THEN 0 ELSE wait_seconds, MaxWaitSeconds))

\* the request as it stands: pc is where the handler is ("collect": in
\* asyncio.to_thread, "sleep": in asyncio.sleep, "done": responded), elapsed
\* is time.monotonic() since the deadline was set, status the HTTP status
Reauth(site_id, host, include, wait, budget, elapsed, pc, status) ==
    [site_id |-> site_id, host |-> host, include |-> include, wait |-> wait,
     budget |-> budget, elapsed |-> elapsed, pc |-> pc, status |-> status]

\* the request ends without a capture
Responded(site_id, payload, status) ==
    Reauth(site_id, <<>>, None, payload.wait_seconds, 0, 0, "done", status)

Capturing == ~IsNone(reauth) /\ Get(reauth).pc # "done"

\* the handler up to its first await
reauthenticate_site(site_id, payload, env, now) ==
    /\ ~Capturing
    /\ IF site_id \notin DOMAIN websites
       THEN /\ reauth' = Some(Responded(site_id, payload, 404))
            /\ UNCHANGED websites
       ELSE IF normalize_host(websites[site_id].url) = <<>>
       THEN /\ reauth' = Some(Responded(site_id, payload, 400))
            /\ UNCHANGED websites
       ELSE IF ManualEntries(payload.manual_cookies) # <<>>
       THEN \E cookies \in {build_manual_cookies(normalize_host(websites[site_id].url),
                                                  ManualEntries(payload.manual_cookies))} :
               IF cookies = <<>>
               THEN /\ reauth' = Some(Responded(site_id, payload, 400))
                    /\ UNCHANGED websites
               ELSE /\ websites' = update_site_cookies(websites, site_id, cookies, now)
                    /\ reauth' = Some(Responded(site_id, payload, 200))
       ELSE IF ~env.lib
       THEN /\ reauth' = Some(Responded(site_id, payload, 500))
            /\ UNCHANGED websites
       ELSE IF ~ensure_cookie_capture_ready(env)
       THEN /\ reauth' = Some(Responded(site_id, payload, 503))
            /\ UNCHANGED websites
       ELSE /\ reauth' = Some(Reauth(site_id, normalize_host(websites[site_id].url),
                                     IncludeSet(payload.include_names), payload.wait_seconds,
                                     wait_budget(payload.wait_seconds), 0, "collect", 0))
            /\ UNCHANGED websites
    /\ UNCHANGED <<nextSiteId, series, nextSeriesId, site_cache, site_cache_meta, taskVars,
                   awaitFresh, seen, resp, pin, pout>>

\* asyncio.to_thread(collect_browser_cookies, ...) returns after took
\* seconds: the handler stores the cookies it found, gives up at the
\* deadline, or goes to sleep
CookiesCollected(jar, took, now) ==
    /\ Capturing
    /\ Get(reauth).pc = "collect"
    /\ \E r \in {[Get(reauth) EXCEPT !.elapsed = @ + took]},
          cookies \in {collect_browser_cookies(jar, Get(reauth).host, Get(reauth).include)} :
          IF cookies # <<>>
          THEN IF r.site_id \in DOMAIN websites
               THEN /\ websites' = update_site_cookies(websites, r.site_id, cookies, now)
                    /\ reauth' = Some([r EXCEPT !.pc = "done", !.status = 200])
               ELSE /\ reauth' = Some([r EXCEPT !.pc = "done", !.status = 404])
                    /\ UNCHANGED websites
          ELSE /\ reauth' = Some(IF r.elapsed >= r.budget
                                  THEN [r EXCEPT !.pc = "done", !.status = 408]
                                  ELSE [r EXCEPT !.pc = "sleep"])
               /\ UNCHANGED websites
    /\ UNCHANGED <<nextSiteId, series, nextSeriesId, site_cache, site_cache_meta, taskVars,
                   awaitFresh, seen, resp, pin, pout>>

\* asyncio.sleep(2.0) returns, late seconds after the two it was asked for
SleepEnds(late) ==
    /\ Capturing
    /\ Get(reauth).pc = "sleep"
    /\ reauth' = Some([Get(reauth) EXCEPT !.elapsed = @ + SleepSeconds + late, !.pc = "collect"])
    /\ UNCHANGED <<storeVars, taskVars, awaitFresh, seen, resp, pin, pout>>


----------------------------------------------------------------------------
(* Live captures, one request at a time, while sites are removed.           *)

CfClearance == <<"c", "f", "_", "c", "l", "e", "a", "r", "a", "n", "c", "e">>
CfBm == <<"_", "_", "c", "f", "_", "b", "m">>
SessionId == <<"s", "i", "d">>

\* the default of ReauthRequest.include_names
DefaultNames == <<CfClearance, CfBm>>

\* what browser_cookie3.load can return: nothing, an exception, a cookie of
\* interest of the site, a cookie of another name, one without a value, one
\* of another domain
Jars ==
    { Some(<<>>), None,
      Some(<<StoredCookie(CfClearance, Some(<<"v">>), <<".", "A">>)>>),
      Some(<<StoredCookie(SessionId, Some(<<"v">>), <<".", "a">>)>>),
      Some(<<StoredCookie(CfClearance, None, <<".", "a">>)>>),
      Some(<<StoredCookie(CfClearance, Some(<<"v">>), <<".", "z">>)>>) }

\* wait_seconds as requested: negative, zero, inside the range, very large
WaitInputs == {-1, 0, 7, 1000}

\* how late a thread or a sleep returns
Delays == {0, 1}

ReadyEnv == Env(TRUE, TRUE, TRUE, FALSE)

CaptureRequests == {ReauthRequest(w, DefaultNames, None) : w \in WaitInputs}

InitCapture == InitDisk({DiskStore(None)})

NextCapture ==
    \/ \E id \in 1..MaxSites, payload \in CaptureRequests : reauthenticate_site(id, payload, ReadyEnv, 0)
    \/ \E jar \in Jars, took \in Delays : CookiesCollected(jar, took, 0)
    \/ \E late \in Delays : SleepEnds(late)
    \/ \E id \in 1..MaxSites : delete_site(id)

\* the thread of asyncio.to_thread returns and the sleep ends
CaptureFairness ==
    /\ WF_vars(\E jar \in Jars, took \in Delays : CookiesCollected(jar, took, 0))
    /\ WF_vars(\E late \in Delays : SleepEnds(late))

SpecCapture == InitCapture /\ [][NextCapture]_vars /\ CaptureFairness

\* the request did or does a live capture
LiveCapture == ~IsNone(reauth) /\ Get(reauth).status \notin {400, 500, 503} /\ Get(reauth).host # <<>>

(* C14: a live capture ends; its wait budget is between 5 and 180 seconds,  *)
(* the requested wait when that is in the range; it sleeps only while the   *)
(* budget has not elapsed, reports a timeout only once it has, and reports  *)
(* success only on a poll that found cookies, which it stores.              *)
C14_CaptureEnds ==
    /\ [](LiveCapture =>
            /\ Get(reauth).budget \in 5..180
            /\ Get(reauth).wait \in 5..180 => Get(reauth).budget = Get(reauth).wait
            /\ Get(reauth).pc = "sleep" => Get(reauth).elapsed < Get(reauth).budget
            /\ Get(reauth).pc = "done" => Get(reauth).status \in {200, 404, 408}
            /\ Get(reauth).status = 408 => Get(reauth).elapsed >= Get(reauth).budget
            /\ Get(reauth).status = 404 => Get(reauth).site_id \notin DOMAIN websites)
    /\ [][(Capturing /\ Get(reauth').status = 200) =>
            /\ websites'[Get(reauth).site_id].auth_cookies # <<>>
            /\ \A i \in 1..Len(websites'[Get(reauth).site_id].auth_cookies) :
                  /\ websites'[Get(reauth).site_id].auth_cookies[i].name \in Range(DefaultNames)
                  /\ domain_matches(websites'[Get(reauth).site_id].auth_cookies[i].domain,
                                    Get(reauth).host)]_vars
    /\ Capturing ~> ~Capturing

\* a capture asked to wait 1000 seconds timed out after 180
C14_LongWaitTimedOut ==
    /\ ~IsNone(reauth)
    /\ Get(reauth).wait = 1000
    /\ Get(reauth).status = 408
    /\ Get(reauth).elapsed \in 180..183


----------------------------------------------------------------------------
(* Reauthentication, manual and by live capture, in an environment where    *)
(* the capture may be unavailable, beside the other requests that write a   *)
(* site; the refresh tasks the updates create make no progress here.        *)

ManualCookie == StoredCookie(CfClearance, <<"m">>, <<".", "a">>)

\* a WebsiteUpdate that sets auth_cookies only
CookiePayload(cookies) == [Payload(None, None, None) EXCEPT !.auth_cookies = Some(cookies)]

ReauthRequests ==
    { ReauthRequest(0, DefaultNames, None),
      ReauthRequest(0, DefaultNames, Some(<<QP(CfClearance, <<"m">>)>>)),
      ReauthRequest(0, DefaultNames, Some(<<QP(<<>>, <<"m">>)>>)) }

\* capture ready, browser_cookie3 missing, no DBus session
Envs == {ReadyEnv, Env(FALSE, TRUE, TRUE, FALSE), Env(TRUE, TRUE, FALSE, FALSE)}

ReauthJars ==
    { Some(<<>>), Some(<<StoredCookie(CfClearance, Some(<<"v">>), <<".", "a">>)>>) }

InitReauth == InitDisk({DiskStore(None)})

NextReauth ==
    \/ \E id \in 1..MaxSites, payload \in ReauthRequests, env \in Envs, now \in Timestamps :
          reauthenticate_site(id, payload, env, now)
    \/ \E jar \in ReauthJars, now \in Timestamps : CookiesCollected(jar, 0, now)
    \/ SleepEnds(0)
    \/ \E id \in DOMAIN websites : update_site(id, CookiePayload(<<ManualCookie>>))
    \/ \E id \in 1..MaxSites : delete_site(id)

SpecReauth == InitReauth /\ [][NextReauth]_vars

\* the request that has just been answered is a successful reauth of the site
ReauthSucceeded(id) ==
    /\ ~IsNone(reauth')
    /\ Get(reauth').pc = "done"
    /\ Get(reauth').status = 200
    /\ Get(reauth').site_id = id

(* C15: a step that changes the stored cookies of a site or its             *)
(* last-reauthenticated timestamp is a successful reauth of that site and   *)
(* leaves the site stamped; a step that answers a reauth request with a     *)
(* failure changes neither.                                                 *)
C15_CookiesOnlyByReauth ==
    [][/\ \A id \in (DOMAIN websites) \cap (DOMAIN websites') :
            (\/ websites'[id].auth_cookies # websites[id].auth_cookies
             \/ websites'[id].last_reauth_at # websites[id].last_reauth_at) =>
                /\ ReauthSucceeded(id)
                /\ ~IsNone(websites'[id].last_reauth_at)
       /\ (reauth' # reauth /\ Get(reauth').pc = "done" /\ Get(reauth').status # 200) =>
             websites' = websites]_vars


----------------------------------------------------------------------------
(* is_structural_match on normalized search terms and normalized candidate  *)
(* texts, as locate_series_hit calls it: the term is not empty, and the     *)
(* token lists are the splits of the two texts.                             *)

MatcherTitles ==
    { <<"o", "n", "e", " ", "p", "i", "e", "c", "e">>,
      <<"o", "n", "e">>,
      <<"b", "l", "u", "e", " ", "l", "o", "c", "k">>,
      <<"a", "b", " ", "c", "d">>,
      <<"o", "n", "e", "p", "i", "e", "c", "e", " ", "2">>,
      <<"n", "a", "r", "u", "t", "o">> }

MatcherCandidates ==
    { <<"o", "n", "e", " ", "p", "i", "e", "c", "e", " ", "c", "h", "a", "p", "t", "e", "r", " ", "1", "0", "9", "9">>,
      <<"l", "o", "n", "e", "l", "y">>,
      <<"b", "l", "u", "e">>,
      <<"o", "n", "e", " ", "p", "i", "e", "c", "e">>,
      <<"o", "n", "e">>,
      <<"o", "n", "e", " ", "1", "2">>,
      <<"o", "n", "e", " ", "m", "o", "r", "e">>,
      <<"p", "i", "e", "c", "e", " ", "o", "n", "e">>,
      <<"o", "n", "e", " ", "p", "i", "e", "c", "s">>,
      <<>>,
      <<"b", "l", "u", "e", " ", "l", "o", "c", "k", " ", "v", "o", "l", " ", "3">>,
      <<"b", "l", "u", "e", " ", "l", "o", "c", "k", " ", "e", "x", "t", "r", "a">>,
      <<"l", "o", "c", "k", " ", "a", "n", "d", " ", "b", "l", "u", "e">>,
      <<"b", "l", "u", "e", " ", "l", "o", "c", "k", " ", "a">>,
      <<"a", "b", " ", "c", "d", " ", "c", "h", " ", "7">>,
      <<"a", "b", "c", "d">>,
      <<"a", "b", " ", "c", "d", " ", "e">>,
      <<"c", "d", " ", "a", "b">>,
      <<"o", "n", "e", "p", "i", "e", "c", "e">>,
      <<"o", "n">>,
      <<"o", "n", "e", " ", "e", "p">>,
      <<"b", "l", "u", "e", " ", "l", "o", "c", "k", " ", "2", " ", "x">>,
      <<"o", "n", "e", "p", "i", "e", "c", "e", " ", "2">>,
      <<"n", "a", "r", "u", "t", "o", "s">>,
      <<"n", "a", "r", "u", "t", "o">>,
      <<"n", "a", "r", "u", "t", "o", " ", "s", "e", "a", "s", "o", "n", " ", "2">> }

InitMatcher ==
    /\ websites = EmptyMap
    /\ nextSiteId = 0
    /\ series = OneSeries
    /\ nextSeriesId = Cardinality(DOMAIN series)
    /\ NoTasks
    /\ pin \in {Some([title |-> t, candidate |-> c]) : t \in MatcherTitles, c \in MatcherCandidates}
    /\ pout = None

MatchCandidate ==
    /\ pout = None
    /\ pout' = Some(is_structural_match(Get(pin).title, Split(Get(pin).title),
                                        Get(pin).candidate, Split(Get(pin).candidate)))
    /\ UNCHANGED <<storeVars, taskVars, awaitFresh, seen, resp, reauth, pin>>

NextMatcher == MatchCandidate

SpecMatcher == InitMatcher /\ [][NextMatcher]_vars

\* a progress keyword or a pure-digit token is among the tokens
HasProgress(tokens) ==
    \E i \in 1..Len(tokens) :
        \/ tokens[i] \in { <<"c", "h", "a", "p", "t", "e", "r">>,
                         <<"c", "h">>,
                         <<"v", "o", "l">>,
                         <<"v", "o", "l", "u", "m", "e">>,
                         <<"e", "p", "i", "s", "o", "d", "e">>,
                         <<"e", "p">>,
                         <<"s", "e", "a", "s", "o", "n">> }
        \/ (tokens[i] # <<>> /\ \A j \in 1..Len(tokens[i]) : IsDigit(tokens[i][j]))

\* the rules of the chain, on a title and a candidate
RuleRatio(t, c) == 100 * Ratio(t, c).m >= 90 * Ratio(t, c).t
RuleSubset(t, c) ==
    /\ Len(Split(t)) >= 2
    /\ \A i \in 1..Len(Split(t)) : \E j \in 1..Len(Split(c)) : Split(c)[j] = Split(t)[i]
    /\ 100 * Ratio(t, c).m >= 75 * Ratio(t, c).t
RulePrefix(t, c) ==
    /\ Len(Split(t)) >= 2
    /\ Len(Split(c)) > Len(Split(t))
    /\ \A i \in 1..Len(Split(t)) : Split(c)[i] = Split(t)[i]
    /\ HasProgress(SubSeq(Split(c), Len(Split(t)) + 1, Len(Split(c))))
RuleSingle(t, c) ==
    /\ Len(Split(t)) = 1
    /\ \/ c = t
       \/ /\ Split(c) # <<>>
          /\ Split(c)[1] = t
          /\ HasProgress(Tail(Split(c)))

(* C16: is_structural_match returns true exactly when one of the four rules *)
(* holds; it accepts ("one piece", "one piece chapter 1099") and rejects    *)
(* ("one", "lonely") and ("blue lock", "blue").                             *)
C16_MatchIffRule ==
    pout # None =>
        /\ Get(pout) = (\/ RuleRatio(Get(pin).title, Get(pin).candidate)
                        \/ RuleSubset(Get(pin).title, Get(pin).candidate)
                        \/ RulePrefix(Get(pin).title, Get(pin).candidate)
                        \/ RuleSingle(Get(pin).title, Get(pin).candidate))
        /\ (Get(pin).title = <<"o", "n", "e", " ", "p", "i", "e", "c", "e">>
              /\ Get(pin).candidate = <<"o", "n", "e", " ", "p", "i", "e", "c", "e", " ", "c", "h", "a", "p", "t", "e", "r", " ", "1", "0", "9", "9">>) => Get(pout)
        /\ (Get(pin).title = <<"o", "n", "e">> /\ Get(pin).candidate = <<"l", "o", "n", "e", "l", "y">>) => ~Get(pout)
        /\ (Get(pin).title = <<"b", "l", "u", "e", " ", "l", "o", "c", "k">>
              /\ Get(pin).candidate = <<"b", "l", "u", "e">>) => ~Get(pout)

\* a candidate that holds the tokens of a two-token title in another order
\* and is not similar enough was rejected
C16_SubsetRejected ==
    /\ pout = Some(FALSE)
    /\ Get(pin).title = <<"b", "l", "u", "e", " ", "l", "o", "c", "k">>
    /\ Get(pin).candidate = <<"l", "o", "c", "k", " ", "a", "n", "d", " ", "b", "l", "u", "e">>

(* C17: for a title of a single token, is_structural_match accepts a        *)
(* candidate only if it equals the title, or its first token equals the     *)
(* title and its remaining tokens hold a progress keyword or a pure-digit   *)
(* token.                                                                   *)
C17_SingleTokenStrict ==
    (pout = Some(TRUE) /\ Len(Split(Get(pin).title)) = 1) =>
        RuleSingle(Get(pin).title, Get(pin).candidate)


----------------------------------------------------------------------------
(* The chapter detector on its own: detect_chapter_in_snippet applied to   *)
(* every short text over an alphabet that spells the prefixes c, ch, ch.   *)
(* and the keyword ep, and to longer snippets.                             *)

MaxSnippet == 4

SnippetChars == {"c", "H", ".", " ", "1", "2", "e", "p"}

ShortSnippets == UNION {[1..n -> SnippetChars] : n \in 0..MaxSnippet}

LongSnippets ==
    { <<"C", "h", "a", "p", "t", "e", "r", " ", "1", "0", ".", "5", "0">>,
      <<"1", "2", " ", "n", "e", "w", " ", "c", "h", " ", "5">>,
      <<"v", "o", "l", ".", "3">>,
      <<"e", "p", "i", "c", " ", "1", "2">>,
      <<"s", "e", "a", "s", "o", "n", " ", "2", " ", "e", "p", " ", "4">>,
      <<"v", "1", "2">>,
      <<"3", " ", "n", "e", "w">>,
      <<"e", "p", "i", "s", "o", "d", "e">>,
      <<"n", "e", "w">>,
      <<"C", "h", ".", " ", " ", "7">>,
      <<"C", "H", ".", "7">>,
      <<"v", "o", "l", " ", "3", ".", "5", ".", "1">>,
      <<"c", "h", " ", ".", "5">>,
      <<"c", " ", "1", ".">>,
      <<"1", "2">> }

InitDetector ==
    /\ websites = EmptyMap
    /\ nextSiteId = 0
    /\ series = OneSeries
    /\ nextSeriesId = Cardinality(DOMAIN series)
    /\ NoTasks
    /\ pin \in {Some(s) : s \in ShortSnippets \cup LongSnippets}
    /\ pout = None

DetectChapter ==
    /\ pout = None
    /\ pout' = Some(detect_chapter_in_snippet(Get(pin)))
    /\ UNCHANGED <<storeVars, taskVars, awaitFresh, seen, resp, reauth, pin>>

NextDetector == DetectChapter

SpecDetector == InitDetector /\ [][NextDetector]_vars

\* the words of the explicit pattern
ExplicitWords ==
    { <<"c", "h", "a", "p", "t", "e", "r">>, <<"c", "h", ".">>, <<"c", "h">>, <<"c">> }

\* the position of the number of an explicit pattern that starts at i: one of
\* the words in any case, then spaces only, then a digit; 0 when there is none
ExplicitNumberAt(s, i) ==
    LET at == {b \in (i + 1)..Len(s) :
                  /\ IsDigit(s[b])
                  /\ \E w \in ExplicitWords :
                         /\ i + Len(w) <= b
                         /\ Lower(SubSeq(s, i, i + Len(w) - 1)) = w
                         /\ \A j \in (i + Len(w))..(b - 1) : IsSpace(s[j])}
    IN IF at = {} THEN 0 ELSE CHOOSE b \in at : TRUE

\* digits, or digits, one point and digits
IsNumberText(t) ==
    \/ t # <<>> /\ AllDigits(t)
    \/ \E k \in 2..(Len(t) - 1) :
           /\ t[k] = "."
           /\ AllDigits(SubSeq(t, 1, k - 1))
           /\ AllDigits(SubSeq(t, k + 1, Len(t)))

\* the longest number that starts at position b of s
NumberTextAt(s, b) ==
    LET ends == {e \in b..Len(s) : IsNumberText(SubSeq(s, b, e))}
    IN SubSeq(s, b, CHOOSE e \in ends : \A f \in ends : f <= e)

\* the label the layered fallback reports for a snippet, None for none
ExpectedLabel(s) ==
    LET explicit == {i \in 1..Len(s) : ExplicitNumberAt(s, i) # 0}
        bare == {b \in 1..Len(s) : IsDigit(s[b])}
    IN IF explicit # {}
       THEN Some(NumberTextAt(s, ExplicitNumberAt(s, CHOOSE i \in explicit : \A j \in explicit : i <= j)))
       ELSE IF HasProgress(Split(normalize_text(s))) /\ bare # {}
       THEN Some(NumberTextAt(s, CHOOSE b \in bare : \A c \in bare : b <= c))
       ELSE None

\* the number n / 10^d is the value of the number text t
IsValueOf(number, t) ==
    LET points == {k \in 1..Len(t) : t[k] = "."}
        decimals == IF points = {} THEN 0 ELSE Len(t) - (CHOOSE k \in points : TRUE)
        figures == SelectSeq(t, IsDigit)
    IN number.n * Pow10(decimals) = DigitsValue(figures) * Pow10(number.d)

\* C18: the label detect_chapter_in_snippet reports is the number of the first
\* occurrence of the explicit pattern (chapter, ch., ch or c, then a number)
\* when the pattern occurs, even after an earlier bare number; otherwise the
\* first bare number of the snippet when a token of the normalized snippet is
\* a progress keyword or purely numeric; otherwise none. A reported label has
\* a parsed number, which is not null and is the numeric value of the label.
C18_LayeredFallback ==
    pout # None =>
        /\ Get(pout).label = ExpectedLabel(Get(pin))
        /\ Get(pout).label # None =>
               /\ Get(pout).number # None
               /\ IsValueOf(Get(Get(pout).number), Get(Get(pout).label))

\* the explicit pattern won over a bare number that stands before it
C18_ExplicitAfterBareNumber ==
    /\ pout # None
    /\ Get(pin) = <<"1", "2", " ", "n", "e", "w", " ", "c", "h", " ", "5">>
    /\ Get(pout).label = Some(<<"5">>)
    /\ Get(pout).number = Some([n |-> 5, d |-> 0])

----------------------------------------------------------------------------
(* The text normalizer on its own: normalize_text applied to every short   *)
(* text over letters of both cases, a digit, punctuation and whitespace,   *)
(* and then to its own output.                                             *)

MaxText == 4

TextChars == {"A", "b", "1", " ", "\t", "-", "_"}

Texts == UNION {[1..n -> TextChars] : n \in 0..MaxText}

InitNormalizer ==
    /\ websites = EmptyMap
    /\ nextSiteId = 0
    /\ series = OneSeries
    /\ nextSeriesId = Cardinality(DOMAIN series)
    /\ NoTasks
    /\ pin \in {Some(t) : t \in Texts}
    /\ pout = <<>>

\* pout holds normalize_text(pin) and then normalize_text of that output
NormalizeText ==
    /\ Len(pout) < 2
    /\ pout' = Append(pout, normalize_text(IF pout = <<>> THEN Get(pin) ELSE pout[Len(pout)]))
    /\ UNCHANGED <<storeVars, taskVars, awaitFresh, seen, resp, reauth, pin>>

NextNormalizer == NormalizeText

SpecNormalizer == InitNormalizer /\ [][NextNormalizer]_vars

\* lowercase letters, digits and single spaces, none at either end
IsNormalText(t) ==
    /\ \A i \in 1..Len(t) : IsLower(t[i]) \/ IsDigit(t[i]) \/ t[i] = " "
    /\ \A i \in 1..(Len(t) - 1) : ~(t[i] = " " /\ t[i + 1] = " ")
    /\ t # <<>> => t[1] # " " /\ t[Len(t)] # " "

\* C19: normalize_text maps the empty string to the empty string, its output
\* holds only lowercase letters, digits and single spaces with no space at
\* either end, and normalizing the output again leaves it as it is.
C19_NormalizeIdempotent ==
    /\ Len(pout) >= 1 =>
           /\ IsNormalText(pout[1])
           /\ Get(pin) = <<>> => pout[1] = <<>>
    /\ Len(pout) = 2 => pout[2] = pout[1]

\* a text with an upper-case letter, punctuation and a run of whitespace was
\* normalized twice
C19_MixedTextTwice ==
    /\ Get(pin) = <<"A", "-", "\t", "b">>
    /\ pout = << <<"a", " ", "b">>, <<"a", " ", "b">> >>

----------------------------------------------------------------------------
(* Series CRUD: add_series, update_series and remove_series from the empty *)
(* store, on titles and aliases that differ by case, spaces and            *)
(* punctuation.                                                            *)

MaxSeries == 2

\* normalize_aliases: the stripped aliases, without the blank ones, those
\* that have no canonical token and those whose token came before
RECURSIVE NormalizeAliasesFrom(_, _, _, _)
NormalizeAliasesFrom(values, i, seenTokens, result) ==
    IF i > Len(values) THEN result
    ELSE LET candidate == Strip(values[i])
             token == canonicalize_title(candidate)
         IN IF candidate = <<>> \/ token = <<>> \/ token \in seenTokens
            THEN NormalizeAliasesFrom(values, i + 1, seenTokens, result)
            ELSE NormalizeAliasesFrom(values, i + 1, seenTokens \cup {token}, Append(result, candidate))

normalize_aliases(values) == NormalizeAliasesFrom(values, 1, {}, <<>>)

\* a SeriesCreate payload
SeriesCreate(title, aliases) == [title |-> title, aliases |-> aliases]

\* a SeriesUpdate payload: a field is None when unset, <<None>> when set to
\* null and <<<<v>>>> when set to v
SeriesUpdate(title, aliases) == [title |-> title, aliases |-> aliases]

\* the response of a series call, kept with the call
SeriesCall(call, series_id, payload, status) ==
    [call |-> call, series_id |-> series_id, payload |-> payload, status |-> status]

\* some series other than skip has one of the tokens
TokenTaken(records, tokens, skip) ==
    \E k \in (DOMAIN records) \ skip :
        tokens \cap series_tokens(records[k].title, records[k].aliases) # {}

\* POST /api/series: InMemoryStore.add_series; the ids uuid4 gives are the
\* numbers up to MaxSeries
add_series(payload) ==
    /\ \E title \in {Strip(payload.title)}, aliases \in {normalize_aliases(payload.aliases)} :
          IF title = <<>>
          THEN /\ resp' = Some(SeriesCall("add_series", 0, payload, 400))
               /\ UNCHANGED <<series, nextSeriesId>>
          ELSE IF TokenTaken(series, series_tokens(title, aliases), {})
          THEN /\ resp' = Some(SeriesCall("add_series", 0, payload, 409))
               /\ UNCHANGED <<series, nextSeriesId>>
          ELSE /\ nextSeriesId < MaxSeries
               /\ series' = MapSet(series, nextSeriesId + 1, Series(nextSeriesId + 1, title, aliases))
               /\ nextSeriesId' = nextSeriesId + 1
               /\ resp' = Some(SeriesCall("add_series", 0, payload, 201))
    /\ UNCHANGED <<websites, nextSiteId, site_cache, site_cache_meta, taskVars, awaitFresh, seen,
                   reauth, pin, pout>>

\* DELETE /api/series/{series_id}: InMemoryStore.remove_series
remove_series(series_id) ==
    /\ IF series_id \notin DOMAIN series
       THEN /\ resp' = Some(SeriesCall("remove_series", series_id, None, 404))
            /\ UNCHANGED series
       ELSE /\ series' = MapPop(series, series_id)
            /\ resp' = Some(SeriesCall("remove_series", series_id, None, 204))
    /\ UNCHANGED <<websites, nextSiteId, nextSeriesId, site_cache, site_cache_meta, taskVars,
                   awaitFresh, seen, reauth, pin, pout>>

\* candidate_title of update_series: the title of the payload, stripped when
\* it is a string, or the title of the record; a null title is the empty text
CandidateTitle(record, payload) ==
    IF IsNone(payload.title) THEN record.title
    ELSE IF IsNone(Get(payload.title)) THEN <<>>
    ELSE Strip(Get(Get(payload.title)))

\* candidate_aliases of update_series
CandidateAliases(record, payload) ==
    IF IsNone(payload.aliases) THEN record.aliases
    ELSE IF IsNone(Get(payload.aliases)) THEN <<>>
    ELSE normalize_aliases(Get(Get(payload.aliases)))

\* PUT /api/series/{series_id}: InMemoryStore.update_series; the record
\* after model_copy holds the candidate title and aliases
update_series(series_id, payload) ==
    /\ IF series_id \notin DOMAIN series
       THEN /\ resp' = Some(SeriesCall("update_series", series_id, payload, 404))
            /\ UNCHANGED series
       ELSE \E title \in {CandidateTitle(series[series_id], payload)},
               aliases \in {CandidateAliases(series[series_id], payload)} :
                IF ~IsNone(payload.title) /\ ~IsNone(Get(payload.title)) /\ title = <<>>
                THEN /\ resp' = Some(SeriesCall("update_series", series_id, payload, 400))
                     /\ UNCHANGED series
                ELSE IF TokenTaken(series, series_tokens(title, aliases), {series_id})
                THEN /\ resp' = Some(SeriesCall("update_series", series_id, payload, 409))
                     /\ UNCHANGED series
                ELSE /\ series' = MapSet(series, series_id, Series(series_id, title, aliases))
                     /\ resp' = Some(SeriesCall("update_series", series_id, payload, 200))
    /\ UNCHANGED <<websites, nextSiteId, nextSeriesId, site_cache, site_cache_meta, taskVars,
                   awaitFresh, seen, reauth, pin, pout>>

TitleOnePiece == <<"O", "n", "e", " ", "P", "i", "e", "c", "e">>
TitleOnepiece == <<"o", "n", "e", "p", "i", "e", "c", "e">>
TitleAb == <<"A", "b", " ">>
TitleMarks == <<"!", "!">>
TitleBlank == <<" ">>

SeriesTitles == {TitleOnePiece, TitleOnepiece, TitleAb, TitleMarks, TitleBlank}

AliasLists ==
    { <<>>, <<TitleOnepiece>>, <<<<"A", "B">>, TitleAb, TitleBlank, TitleMarks>> }

SeriesCreates == {SeriesCreate(t, a) : t \in SeriesTitles, a \in AliasLists}

SeriesUpdates ==
    {SeriesUpdate(t, a) : t \in {None, Some(None)} \cup {Some(Some(x)) : x \in SeriesTitles},
                          a \in {None, Some(None)} \cup {Some(Some(x)) : x \in AliasLists}}

\* the store of a first start: no data file
InitSeries ==
    /\ websites = EmptyMap
    /\ nextSiteId = 0
    /\ series = EmptyMap
    /\ nextSeriesId = Cardinality(DOMAIN series)
    /\ NoTasks
    /\ NoPure

NextSeries ==
    \/ \E payload \in SeriesCreates : add_series(payload)
    \/ \E series_id \in 1..MaxSeries, payload \in SeriesUpdates : update_series(series_id, payload)
    \/ \E series_id \in 1..MaxSeries : remove_series(series_id)

SpecSeries == InitSeries /\ [][NextSeries]_vars

NotSpace(c) == c # " "

\* the canonical tokens of names: the normalized names without their
\* spaces, a name without letters and digits giving none
CanonicalTokens(names) == {SelectSeq(normalize_text(names[i]), NotSpace) : i \in 1..Len(names)} \ {<<>>}

TokensOf(record) == CanonicalTokens(<<record.title>> \o record.aliases)

\* the names a call asks a series to have: those of an add_series payload,
\* or for update_series the title and aliases the payload sets and the
\* stored ones where it sets none
AskedNames(call) ==
    IF call.call = "add_series" THEN <<call.payload.title>> \o call.payload.aliases
    ELSE LET record == series[call.series_id]
             p == call.payload
         IN (IF IsNone(p.title) THEN <<record.title>>
             ELSE IF IsNone(Get(p.title)) THEN <<>> ELSE <<Get(Get(p.title))>>)
            \o (IF IsNone(p.aliases) THEN record.aliases
                ELSE IF IsNone(Get(p.aliases)) THEN <<>> ELSE Get(Get(p.aliases)))

\* the call is an add or an update of a tracked series whose names share a
\* token with another tracked series
AsksOverlap(call) ==
    /\ call.call \in {"add_series", "update_series"}
    /\ call.call = "update_series" => call.series_id \in DOMAIN series
    /\ \E k \in (DOMAIN series) \ (IF call.call = "update_series" THEN {call.series_id} ELSE {}) :
           CanonicalTokens(AskedNames(call)) \cap TokensOf(series[k]) # {}

\* C20: after any sequence of add_series, update_series and remove_series
\* calls no two tracked series share a canonical token, the normalized form
\* without whitespace of a title or an alias; an add or update whose names
\* share a token with another tracked series is rejected and leaves the
\* store as it is, with a 409 unless its title is blank (400).
C20_TokensUnique ==
    /\ [](\A a, b \in DOMAIN series : a # b => TokensOf(series[a]) \cap TokensOf(series[b]) = {})
    /\ [][AsksOverlap(Get(resp')) =>
             /\ series' = series
             /\ Get(resp').status \in {400, 409}
             /\ Get(resp').status = 400 =>
                    /\ ~IsNone(Get(resp').payload.title)
                    /\ Strip(IF Get(resp').call = "add_series" THEN Get(resp').payload.title
                             ELSE Get(Get(Get(resp').payload.title))) = <<>>]_vars

\* "One Piece" is tracked beside another series, and an add of "onepiece"
\* was answered with a conflict
C20_OnepieceRejected ==
    /\ Cardinality(DOMAIN series) = 2
    /\ \E k \in DOMAIN series : series[k].title = TitleOnePiece
    /\ resp # None
    /\ Get(resp).call = "add_series"
    /\ Get(resp).payload.title = TitleOnepiece
    /\ Get(resp).status = 409

----------------------------------------------------------------------------
(* Every source of a refresh side by side: site creation, site update,     *)
(* matches queries that find a snapshot missing, and the poller's ticks.   *)

InitOwner == Init

NextOwner ==
    \/ \E payload \in CreateInputs : create_site(payload)
    \/ \E id \in DOMAIN websites : update_site(id, Relabel(id))
    \/ now_reading
    \/ start_poller
    \/ \E p \in PollerIds : PollTick(p)
    \/ FetchStep({"ok"})
    \/ \E r \in DOMAIN runs : RefreshComplete(r, 0)

SpecOwner == InitOwner /\ [][NextOwner]_vars

\* the fetch_site_body call of run r for site id has requests to make
FetchInFlight(r, id) ==
    /\ RunActive(r)
    /\ \E k \in 1..Len(runs[r].targets) : runs[r].targets[k].id = id /\ ~PagesDone(runs[r], k)

\* C21: at no moment are two fetches of the same site in flight, whatever
\* the interleaving of poller ticks with the refreshes started by site
\* creation, site update and matches queries that find a snapshot missing.
C21_OneFetchPerSite ==
    \A id \in DOMAIN websites :
        \A r1, r2 \in DOMAIN runs :
            FetchInFlight(r1, id) /\ FetchInFlight(r2, id) => r1 = r2

----------------------------------------------------------------------------
(* What removes a snapshot: updates that set the URL a site has or another *)
(* URL, removals, refreshes with and without content, beside series calls, *)
(* manual reauths and matches queries.                                     *)

\* the store loaded from a data file that holds one site
InitPurge ==
    /\ websites = [i \in {1} |-> DiskSite1(None)]
    /\ nextSiteId = 1
    /\ series = OneSeries
    /\ nextSeriesId = Cardinality(DOMAIN series)
    /\ NoTasks
    /\ NoPure

\* the update that sets the URL of a site to the URL it has
SameUrl(site_id) == Payload(None, Some(websites[site_id].url), None)

NextPurge ==
    \/ \E id \in DOMAIN websites : update_site(id, SameUrl(id))
    \/ \E id \in 1..MaxSites : update_site(id, Payload(None, Some(UrlC), None))
    \/ \E id \in 1..MaxSites : delete_site(id)
    \/ \E id \in 1..MaxSeries : remove_series(id)
    \/ \E id \in 1..MaxSites :
           reauthenticate_site(id, ReauthRequest(0, DefaultNames, Some(<<QP(CfClearance, <<"m">>)>>)),
                               ReadyEnv, 0)
    \/ now_reading
    \/ FetchStep({"ok", "fail"})
    \/ \E r \in DOMAIN runs : RefreshComplete(r, 0)

SpecPurge == InitPurge /\ [][NextPurge]_vars

\* the step removes the snapshot of site id
SnapshotRemoved(id) == id \in DOMAIN site_cache /\ id \notin DOMAIN site_cache'

\* the step changes the URL of site id, deletes the site, or completes a
\* fetch of the site that yielded no content
RemovalCause(id) ==
    \/ id \in DOMAIN websites /\ id \in DOMAIN websites' /\ websites'[id].url # websites[id].url
    \/ id \in DOMAIN websites /\ id \notin DOMAIN websites'
    \/ \E r \in DOMAIN runs :
           /\ Completes(r)
           /\ \E k \in 1..Len(runs[r].targets) : runs[r].targets[k].id = id /\ Body(runs[r], k) = <<>>

\* C22: a snapshot is removed only by an update that changes the site's
\* URL, by a fetch of the site that yields no content, or by deleting the
\* site; a step that is none of these and completes no refresh leaves the
\* snapshot cache exactly as it was.
C22_SnapshotRemovedOnlyByCause ==
    [][/\ \A id \in DOMAIN site_cache : SnapshotRemoved(id) => RemovalCause(id)
       /\ (\A r \in DOMAIN runs : ~Completes(r)) /\ (\A id \in DOMAIN websites : ~RemovalCause(id))
             => site_cache' = site_cache /\ site_cache_meta' = site_cache_meta]_vars

----------------------------------------------------------------------------
\* C23: every site id that has a snapshot is the id of a tracked site, also
\* when a site is deleted while a refresh that targets it is in flight.
C23_SnapshotsOfTrackedSites ==
    /\ DOMAIN site_cache \subseteq DOMAIN websites
    /\ DOMAIN site_cache_meta \subseteq DOMAIN websites

\* C24: a snapshot never regresses: the body a refresh writes for a site was
\* fetched with the configuration (URL, pagination, cookies) the site has at
\* the time of the write, so the result of a fetch that started before a
\* change of the site is never written after the change.
C24_WritesCurrentConfig ==
    [][\A r \in DOMAIN runs :
          Completes(r) =>
              \A k \in 1..Len(runs[r].targets) :
                  (Body(runs[r], k) # <<>> /\ runs[r].targets[k].id \in DOMAIN websites) =>
                      /\ runs[r].targets[k].url = websites[runs[r].targets[k].id].url
                      /\ runs[r].targets[k].pagination = websites[runs[r].targets[k].id].pagination
                      /\ runs[r].targets[k].auth_cookies = websites[runs[r].targets[k].id].auth_cookies]_vars

----------------------------------------------------------------------------
(* The best hit and the listings of locate_series_hit, stated from the     *)
(* candidates.                                                             *)

\* the candidates that structurally match the title, by position
MatchingCandidates(title, candidates) ==
    {i \in 1..Len(candidates) :
        \E t \in {normalize_text(title)}, c \in {candidates[i].norm} :
            RuleRatio(t, c) \/ RuleSubset(t, c) \/ RulePrefix(t, c) \/ RuleSingle(t, c)}

\* the ratios of the candidates to the title, by position
RatiosOf(title, candidates) ==
    [i \in 1..Len(candidates) |-> Ratio(normalize_text(title), candidates[i].norm)]

\* the first of the candidates of matching that none exceeds in ratio
BestCandidate(matching, ratios) ==
    CHOOSE i \in matching :
        \A j \in matching :
            /\ ratios[j].m * ratios[i].t <= ratios[i].m * ratios[j].t
            /\ j < i => ratios[j].m * ratios[i].t < ratios[i].m * ratios[j].t

\* the chapter label of a candidate: that of its text, else of its context
LabelOf(candidate) ==
    CHOOSE l \in {IF label # None THEN label ELSE ExpectedLabel(candidate.context) :
                     label \in {ExpectedLabel(candidate.text)}} : TRUE

\* label and number are the chapter of the candidate
IsChapterOf(label, number, candidate) ==
    /\ label = LabelOf(candidate)
    /\ IF label = None THEN number = None
       ELSE number # None /\ IsValueOf(Get(number), Get(label))

\* the link of a candidate, the URL of the site when it has none
LinkOf(candidate, site_url) == IF candidate.link = None THEN site_url ELSE Get(candidate.link)

\* C25: locate_series_hit reports the link, chapter label and chapter number
\* of the matching candidate with the highest similarity ratio, the first
\* in candidate order among those that share it; it reports nothing when no
\* candidate matches.
C25_BestIsHighestRatio ==
    pout # None =>
        \E matching \in {MatchingCandidates(Get(pin).title, Get(pin).candidates)} :
            IF matching = {} THEN Get(pout) = None
            ELSE /\ Get(pout) # None
                 /\ \E i \in {BestCandidate(matching, RatiosOf(Get(pin).title, Get(pin).candidates))} :
                        /\ Get(Get(pout)).link = LinkOf(Get(pin).candidates[i], UrlA)
                        /\ IsChapterOf(Get(Get(pout)).chapter_label, Get(Get(pout)).chapter_number,
                                       Get(pin).candidates[i])

\* chapter 3 and chapter 2 have the same ratio, above that of "chapter 2":
\* the first of the two is reported
C25_TieFirstSeen ==
    /\ pout # None
    /\ Get(pout) # None
    /\ Len(Get(pin).candidates) = 3
    /\ Get(pin).candidates[1].text = TitleAbCd \o <<" ", "c", "h", "a", "p", "t", "e", "r", " ", "2">>
    /\ Get(pin).candidates[2].text = ChapterText(<<"3">>)
    /\ Get(pin).candidates[3].text = ChapterText(<<"2">>)
    /\ Get(Get(pout)).chapter_label = Some(<<"3">>)

\* two chapters have the same signature: the same parsed number, or no
\* number and the same case-folded trimmed label
SameSignature(label1, number1, label2, number2) ==
    IF number1 # None \/ number2 # None THEN number1 = number2
    ELSE label1 # None /\ label2 # None /\ Lower(Strip(Get(label1))) = Lower(Strip(Get(label2)))

\* C26: whenever the best hit has a chapter label, a listing with the best
\* hit's chapter signature is among the chapter listings returned, also when
\* more than 5 distinct chapters with higher numbers were detected.
C26_BestAmongListings ==
    (pout # None /\ Get(pout) # None /\ Get(Get(pout)).chapter_label # None) =>
        \E i \in 1..Len(Get(Get(pout)).chapter_list) :
            SameSignature(Get(Get(pout)).chapter_list[i].label, Get(Get(pout)).chapter_list[i].number,
                          Get(Get(pout)).chapter_label, Get(Get(pout)).chapter_number)

----------------------------------------------------------------------------
(* locate_series_hit on a document that names the same chapter several    *)
(* times, under different links and spellings.                             *)

DedupTexts ==
    { ChapterText(<<"2">>), ChapterText(<<"2", ".", "0">>), ChapterText(<<"3">>),
      TitleAbCd \o <<" ", "c", "h", "a", "p", "t", "e", "r", " ", "2">>, TitleAbCd \o <<" ", "v", "o", "l", " ", "3">>, TitleAbCd }

DedupCandidates == {CandidateEntry(t, Some(Url(<<"a">>, <<"/">> \o t, <<>>)), <<>>) : t \in DedupTexts}

InitDedup == InitHit

NextDedup ==
    \/ \E c \in DedupCandidates : AddCandidate(c)
    \/ LocateHit

SpecDedup == InitDedup /\ [][NextDedup]_vars

\* the first matching candidate whose chapter has the signature of listing
FirstWithSignature(matching, labels, listing) ==
    LET same == {i \in matching :
                    /\ labels[i] # None
                    /\ listing.number # None
                    /\ IsValueOf(Get(listing.number), Get(labels[i]))}
    IN IF same = {} THEN 0 ELSE CHOOSE i \in same : \A j \in same : i <= j

\* C27: the chapter listings locate_series_hit returns have pairwise
\* distinct signatures, and a listing with a number is the one of the first
\* matching candidate, in candidate order, whose chapter has that number:
\* it has that candidate's label and link.
C27_ListingsDistinct ==
    (pout # None /\ Get(pout) # None) =>
        \E listings \in {Get(Get(pout)).chapter_list},
           matching \in {MatchingCandidates(Get(pin).title, Get(pin).candidates)},
           labels \in {[i \in 1..Len(Get(pin).candidates) |-> LabelOf(Get(pin).candidates[i])]} :
            /\ \A i, j \in 1..Len(listings) :
                   i # j => ~SameSignature(listings[i].label, listings[i].number,
                                           listings[j].label, listings[j].number)
            /\ \A i \in 1..Len(listings) :
                   listings[i].number # None =>
                       \E f \in {FirstWithSignature(matching, labels, listings[i])} :
                           /\ f # 0
                           /\ listings[i].label = labels[f]
                           /\ listings[i].link = Some(LinkOf(Get(pin).candidates[f], UrlA))

\* chapter 2 is named three times: the listing is the one of "ch 2.0",
\* which came first
C27_FirstSpellingKept ==
    /\ pout # None
    /\ Get(pout) # None
    /\ Len(Get(pin).candidates) = 4
    /\ Get(pin).candidates[1].text = ChapterText(<<"2", ".", "0">>)
    /\ Get(pin).candidates[2].text = ChapterText(<<"2">>)
    /\ Get(pin).candidates[3].text = ChapterText(<<"3">>)
    /\ Len(Get(Get(pout)).chapter_list) = 2
    /\ Get(Get(pout)).chapter_list[2].label = Some(<<"2", ".", "0">>)

----------------------------------------------------------------------------
(* Matches queries on two sites whose snapshots list the series "ab cd"    *)
(* once or twice, with different chapters.                                 *)

LatestTexts == {ChapterText(<<"2">>), ChapterText(<<"5">>), ChapterText(<<"9">>), TitleAbCd}

\* the documents of one or two links
LatestDocs ==
    {<<Element("a", t, Some(Url(<<"a">>, <<"/">> \o t, <<>>)), <<>>)>> : t \in LatestTexts}
    \cup {<<Element("a", t, Some(Url(<<"a">>, <<"/">> \o t, <<>>)), <<>>),
            Element("a", u, Some(Url(<<"a">>, <<"/">> \o u, <<>>)), <<>>)>> :
              t \in LatestTexts, u \in LatestTexts \ {TitleAbCd}}

InitLatest ==
    /\ websites = [i \in {1, 2} |-> IF i = 1 THEN Website(1, LabelX, UrlA, None)
                                     ELSE Website(2, LabelY, UrlB, None)]
    /\ nextSiteId = 2
    /\ series = OneSeries
    /\ nextSeriesId = Cardinality(DOMAIN series)
    /\ site_cache \in [{1, 2} -> LatestDocs]
    /\ site_cache_meta = [id \in DOMAIN site_cache |-> 0]
    /\ runs = EmptyMap
    /\ poller_task = None
    /\ pollers = EmptyMap
    /\ awaitFresh = {}
    /\ seen = {}
    /\ resp = None
    /\ reauth = None
    /\ NoPure

NextLatest == now_reading

SpecLatest == InitLatest /\ [][NextLatest]_vars

\* the best matching candidate of the snapshot of the site with a label
BestOfSite(label, title) ==
    CHOOSE c \in {candidates[BestCandidate(MatchingCandidates(title, candidates),
                                           RatiosOf(title, candidates))] :
                     candidates \in {extract_candidate_entries(site_cache[id], websites[id].url) :
                                       id \in {i \in DOMAIN websites : websites[i].label = label}}} : TRUE

\* -(number or -1.0) of one source is at most that of another
NotAfter(number1, number2) ==
    IF number2 = None THEN TRUE
    ELSE IF number1 = None THEN FALSE
    ELSE Get(number2).n * Pow10(Get(number1).d) <= Get(number1).n * Pow10(Get(number2).d)

\* C28: the latest chapter label and number of a Source Hit are those of
\* the best (highest-ratio) matching candidate of the site, whatever its
\* chapter listings hold, and the Source Hits of a Match stand in descending
\* order of that number.
C28_LatestIsBestHit ==
    resp # None =>
        \A m \in 1..Len(Get(resp).matches) :
            \E sources \in {Get(resp).matches[m].sources} :
                /\ \A i \in 1..Len(sources) :
                       IsChapterOf(sources[i].latest_chapter, sources[i].latest_chapter_number,
                                   BestOfSite(sources[i].site, Get(resp).matches[m].title))
                /\ \A i \in 1..(Len(sources) - 1) :
                       NotAfter(sources[i].latest_chapter_number, sources[i + 1].latest_chapter_number)

\* the site whose latest chapter is 2 lists chapter 9 first and stands
\* after the site whose latest chapter is 5
C28_ListingAboveLatest ==
    /\ resp # None
    /\ Len(Get(resp).matches) = 1
    /\ Len(Get(resp).matches[1].sources) = 2
    /\ Get(resp).matches[1].sources[1].latest_chapter = Some(<<"5">>)
    /\ Get(resp).matches[1].sources[2].latest_chapter = Some(<<"2">>)
    /\ Get(resp).matches[1].sources[2].recent_chapters[1].label = Some(<<"9">>)

----------------------------------------------------------------------------
(* Site and series calls that are rejected, on a store that holds one site *)
(* with its snapshot and one series.                                       *)

InitReject ==
    /\ websites = [i \in {1} |-> DiskSite1(None)]
    /\ nextSiteId = 1
    /\ series = OneSeries
    /\ nextSeriesId = Cardinality(DOMAIN series)
    /\ site_cache = [i \in {1} |-> Web(UrlA)]
    /\ site_cache_meta = [i \in {1} |-> 0]
    /\ runs = EmptyMap
    /\ poller_task = None
    /\ pollers = EmptyMap
    /\ awaitFresh = {}
    /\ seen = {}
    /\ resp = None
    /\ reauth = None
    /\ NoPure

RejectCreates == {Payload(LabelY, UrlB, None)}
RejectUpdates == {Payload(None, Some(UrlB), None)}
RejectSeriesCreates == {SeriesCreate(t, <<>>) : t \in {TitleAbCd, TitleXyZ}}
RejectSeriesUpdates == {SeriesUpdate(Some(Some(TitleAbCd)), None)}

NextReject ==
    \/ \E payload \in RejectCreates : create_site(payload)
    \/ \E id \in 1..MaxSites, payload \in RejectUpdates : update_site(id, payload)
    \/ \E id \in 1..MaxSites : delete_site(id)
    \/ \E payload \in RejectSeriesCreates : add_series(payload)
    \/ \E id \in 1..MaxSeries, payload \in RejectSeriesUpdates : update_series(id, payload)
    \/ \E id \in 1..MaxSeries : remove_series(id)
    \/ FetchStep({"ok"})
    \/ \E r \in DOMAIN runs : RefreshComplete(r, 0)

SpecReject == InitReject /\ [][NextReject]_vars

\* the site call is answered 404 or 409
SiteNotFound(id) == id \notin DOMAIN websites
SiteConflict(url, except) ==
    \E i \in (DOMAIN websites) \ except : normalize_host(websites[i].url) = normalize_host(url)

\* the series call of the step is answered 404 or 409
SeriesRejected == resp' # None /\ Get(resp').status \in {404, 409}

\* C29: a site or series call that ends in a conflict or not-found error
\* leaves the tracked sites, the tracked series and the snapshot cache as
\* they were before the call.
C29_RejectedLeavesStore ==
    [][/\ \A payload \in RejectCreates :
             create_site(payload) /\ SiteConflict(payload.url, {}) => UNCHANGED storeVars
       /\ \A id \in 1..MaxSites, payload \in RejectUpdates :
             (/\ update_site(id, payload)
              /\ SiteNotFound(id) \/ SiteConflict(Get(payload.url), {id})) => UNCHANGED storeVars
       /\ \A id \in 1..MaxSites : delete_site(id) /\ SiteNotFound(id) => UNCHANGED storeVars
       /\ \A payload \in RejectSeriesCreates :
             add_series(payload) /\ SeriesRejected => UNCHANGED storeVars
       /\ \A id \in 1..MaxSeries, payload \in RejectSeriesUpdates :
             update_series(id, payload) /\ SeriesRejected => UNCHANGED storeVars
       /\ \A id \in 1..MaxSeries : remove_series(id) /\ SeriesRejected => UNCHANGED storeVars]_vars

\* the update of site 1 to the host of site 2 was rejected, and site 1 has
\* its URL and its snapshot; the update of series 2 to the title of series 1
\* was rejected
C29_DuplicateHostKeepsSnapshot ==
    /\ "conflict" \in seen
    /\ DOMAIN websites = {1, 2}
    /\ websites[1].url = UrlA
    /\ 1 \in DOMAIN site_cache
    /\ resp # None
    /\ Get(resp).call = "update_series"
    /\ Get(resp).status = 409

----------------------------------------------------------------------------
(* Reauth requests that carry a manual cookie map: one cookie with a value, *)
(* one without a name, one with an empty value, and an empty map, beside   *)
(* requests that carry none.                                               *)

ManualMaps ==
    { <<QP(CfClearance, <<"m">>)>>,
      <<QP(<<>>, <<"m">>)>>,
      <<QP(CfClearance, <<>>)>>,
      <<QP(CfClearance, <<"m">>), QP(SessionId, <<>>)>>,
      <<>> }

ManualRequests ==
    {ReauthRequest(0, DefaultNames, None)} \cup {ReauthRequest(0, DefaultNames, Some(map)) : map \in ManualMaps}

InitManual == InitDisk({DiskStore(None)})

NextManual ==
    \/ \E id \in 1..MaxSites, payload \in ManualRequests, env \in Envs, now \in Timestamps :
          reauthenticate_site(id, payload, env, now)
    \/ \E jar \in ReauthJars, now \in Timestamps : CookiesCollected(jar, 0, now)
    \/ SleepEnds(0)
    \/ \E id \in 1..MaxSites : delete_site(id)

SpecManual == InitManual /\ [][NextManual]_vars

\* the cookies are items of the map, under the domain of the site
FromMap(cookies, map) ==
    \A i \in 1..Len(cookies) :
        \E j \in 1..Len(map) : cookies[i].name = Strip(map[j].k) /\ cookies[i].value = Strip(map[j].v)

\* C30: a reauth request that supplies a manual cookie map is answered at
\* once, with the site's cookies set to cookies of the map or with a
\* failure that leaves them alone; the handler never goes on to collect
\* the cookies of the browser for it.
C30_ManualNeverCaptures ==
    [][\A id \in 1..MaxSites, payload \in ManualRequests, env \in Envs, now \in Timestamps :
          (reauthenticate_site(id, payload, env, now) /\ ~IsNone(payload.manual_cookies)) =>
              /\ Get(reauth').pc = "done"
              /\ IF Get(reauth').status = 200
                 THEN FromMap(websites'[id].auth_cookies, Get(payload.manual_cookies))
                 ELSE websites' = websites]_vars

====
